---- MODULE Spec2Model ----
(***************************************************************************)
(* Ard: the collection-network extraction engine                           *)
(* (ard/collection/optiwindnet_wrap.py, class OptiwindnetCollection).      *)
(*                                                                         *)
(* The component is a state machine: it keeps the physical graph of the    *)
(* last evaluation (self.graph) and its output vectors between calls.      *)
(* compute and compute_partials are the two handlers.  The solver          *)
(* (optiwindnet) is external: each evaluation receives from it a logical   *)
(* tree S, the realized physical graph G, and the candidate-link table A   *)
(* with its root distances d2roots.  These are drawn from a bounded family *)
(* of solver results (Shape and SolverResult below).                       *)
(*                                                                         *)
(* Node indices: turbines 0..T-1, border vertices T..T+B-1, relay (detour  *)
(* or contour) nodes from T+B upward, substations -R..-1.                  *)
(* Lengths are exact integers: every coordinate is one of the five points  *)
(* of a 6 x 8 rectangle (corners and centre), whose pairwise distances are *)
(* 0, 5, 6, 8 or 10.  Gradients are kept as integers in units of 1/240.    *)
(***************************************************************************)
EXTENDS Integers, Sequences, FiniteSets, TLC

\* ----------------------------------------------------------------- bounds
MaxNodes == 4      \* turbines and substations of one farm: T + R <= MaxNodes
MaxChain == 2      \* relay nodes on a well-formed relay chain: 1..MaxChain
MaxSeqNodes == 2   \* the design point moves on farms of T + R <= MaxSeqNodes
GridMax == 2       \* segment endpoints have integer coordinates in 0..GridMax
MaxDen == 2        \* query points have coordinates k/d, d in 1..MaxDen
MaxPoints == 2     \* a batch of query points has 0..MaxPoints points
MaxRegions == 2    \* a boundary set has 1..MaxRegions polygons
MaxOrbitNodes == 4 \* a graph handed to ORBIT has T + R <= MaxOrbitNodes nodes
MaxString == 12    \* or is one string of 1..MaxString turbines
MaxExtent == 2     \* a mesh has 1..MaxExtent rows and columns
MaxVars == 3       \* an OpenMDAO problem lists 1..MaxVars variables

\* ------------------------------------------------------------ small helpers
\* a Python local: unbound until its first assignment
Unbound == [bound |-> FALSE, val |-> 0]
Bound(x) == [bound |-> TRUE, val |-> x]

Min2(a, b) == IF a < b THEN a ELSE b
Max2(a, b) == IF a < b THEN b ELSE a
Abs(a) == IF a < 0 THEN -a ELSE a

RECURSIVE SumSeq(_)
SumSeq(s) == IF s = <<>> THEN 0 ELSE Head(s) + SumSeq(Tail(s))

\* numpy.ndarray.sum of a vector indexed 0..n-1
RECURSIVE SumTo(_, _)
SumTo(f, n) == IF n = 0 THEN 0 ELSE f[n - 1] + SumTo(f, n - 1)

\* ---------------------------------------------------------------- geometry
\* The site grid: corners and centre of a 6 x 8 rectangle.
GridPoint(k) ==
    CASE k = 0 -> <<0, 0>>
      [] k = 1 -> <<6, 0>>
      [] k = 2 -> <<6, 8>>
      [] k = 3 -> <<0, 8>>
      [] OTHER -> <<3, 4>>

\* numpy.hypot on coordinate differences: exact, the distances of the
\* layouts are integers
Hypot(dx, dy) ==
    CHOOSE n \in 0..(Abs(dx) + Abs(dy)) : n * n = dx * dx + dy * dy

\* Euclidean distance of two grid points
Dist(p, q) == Hypot(p[1] - q[1], p[2] - q[2])

\* ------------------------------------------------- the solver's results
\* Realization of the link from turbine i to its parent in the physical
\* graph: "direct", one edge; "chain", a path through n relay nodes (a
\* detoured feeder, or a contoured link between turbines); "deadend", one
\* relay that leads nowhere; "cycle", three relays in a ring (the last two
\* are malformed graphs, on feeders only).  skew is an inconsistency of the
\* solver's result: it is added to the physical length of the link's first
\* hop (0 for a consistent result).
Direct == [kind |-> "direct", n |-> 0, skew |-> 0]
Skewed == [kind |-> "direct", n |-> 0, skew |-> 1]
Chain(n) == [kind |-> "chain", n |-> n, skew |-> 0]
DeadEnd == [kind |-> "deadend", n |-> 1, skew |-> 0]
Cycle == [kind |-> "cycle", n |-> 3, skew |-> 0]
LinkKinds == {Direct, Skewed} \cup {Chain(n) : n \in 1..MaxChain}
FeederKinds == LinkKinds \cup {DeadEnd, Cycle}

Roots(R) == (-R)..(-1)
Turbines(T) == 0..(T - 1)

\* follow parent links from n for at most k steps
RECURSIVE Climb(_, _, _)
Climb(par, n, k) == IF n < 0 \/ k = 0 THEN n ELSE Climb(par, par[n], k - 1)

\* every turbine reaches a substation: the solver returns a forest of trees
\* rooted at substations
IsForest(par, T) == \A i \in Turbines(T) : Climb(par, i, T) < 0

\* turbine i lies on the path from j to its substation (i = j included)
RECURSIVE OnPath(_, _, _, _)
OnPath(par, j, i, k) ==
    IF j = i THEN TRUE
    ELSE IF j < 0 \/ k = 0 THEN FALSE
    ELSE OnPath(par, par[j], i, k - 1)

\* the load of the link that leaves turbine i: the turbines of i's subtree
SubtreeSize(par, T, i) == Cardinality({j \in Turbines(T) : OnPath(par, j, i, T)})

\* the forests the solver can return for T turbines and R substations
Forests(T, R) ==
    {p \in [Turbines(T) -> Roots(R) \cup Turbines(T)] : IsForest(p, T)}

\* the realizations of the links: all direct, or one link that is not
\* (the malformed kinds on feeders only)
Realizations(T, par) ==
    {[i \in Turbines(T) |-> Direct]} \cup
    UNION { { [j \in Turbines(T) |-> IF j = i THEN k ELSE Direct] :
                k \in (IF par[i] < 0 THEN FeederKinds ELSE LinkKinds)
                        \ {Direct} }
            : i \in Turbines(T) }

\* The shape of one result of the solver: T turbines, R substations, B
\* border vertices (none or one), the parent par[i] of every turbine, the
\* realization real[i] of its link, and the insertion order of the edges
\* (flip).  unit is the unit of the coordinates: metres on the site grid
\* (site is then unused), nanometres where site gives the rows.
Shape(T, R, B, par, real, flip) ==
    [T |-> T, R |-> R, B |-> B, par |-> par, real |-> real, flip |-> flip,
     unit |-> "m", site |-> <<>>]

\* A farm a few nanometres across, every position on one axis: the rows
\* of its coordinate array are site, in nanometres; every link is a direct
\* edge.
NearShape(T, R, par, site) ==
    [T |-> T, R |-> R, B |-> 0, par |-> par,
     real |-> [i \in Turbines(T) |-> Direct], flip |-> FALSE,
     unit |-> "nm", site |-> site]

\* positions on an axis, in nanometres: 0 and 1 are 1e-9 m apart, as are
\* 12 and 13; every other pair is more than 1e-8 m apart
NearCoords == {0, 1, 12, 13}

\* the coordinate arrays of n nodes placed on the x axis or on the y axis
NearSites(n) ==
    {[k \in 0..(n - 1) |-> IF axis = 1 THEN <<c[k], 0>> ELSE <<0, c[k]>>] :
        c \in [0..(n - 1) -> NearCoords], axis \in 1..2}

\* relay nodes are numbered from T + B upward, link by link
RECURSIVE RelayBase(_, _)
RelayBase(sh, i) ==
    IF i = 0 THEN sh.T + sh.B ELSE RelayBase(sh, i - 1) + sh.real[i - 1].n

NumRelays(sh) == RelayBase(sh, sh.T) - (sh.T + sh.B)

\* the physical hops of turbine i's link, from i toward its parent
LinkHops(sh, i) ==
    LET c == RelayBase(sh, i)
        p == sh.par[i]
        k == sh.real[i].kind
        n == sh.real[i].n
    IN  CASE k = "direct" -> << <<i, p>> >>
          [] k = "deadend" -> << <<i, c>> >>
          [] k = "cycle" -> << <<i, c>>, <<c, c + 1>>, <<c + 1, c + 2>>,
                               <<c + 2, c>> >>
          [] OTHER ->
               [h \in 1..(n + 1) |->
                   << IF h = 1 THEN i ELSE c + h - 2,
                      IF h = n + 1 THEN p ELSE c + h - 1 >>]

Reverse(s) == [k \in 1..Len(s) |-> s[Len(s) + 1 - k]]

\* fnT: relay (clone) nodes map to the coordinate row of the vertex they hug;
\* every other node maps to itself (optiwindnet's G.graph['fnT'])
FnTAt(sh, n) ==
    IF n >= sh.T + sh.B THEN (n - sh.T - sh.B + 1) % (sh.T + sh.B) ELSE n

FnT(sh) ==
    [n \in (-sh.R)..(sh.T + sh.B + NumRelays(sh) - 1) |-> FnTAt(sh, n)]

\* the coordinate array of _own_L_from_inputs: turbines, borders, substations
VertexCOf(sh) ==
    IF sh.unit = "nm" THEN sh.site
    ELSE [k \in 0..(sh.T + sh.B + sh.R - 1) |-> GridPoint(k % 5)]
NumRows(V) == Cardinality(DOMAIN V)

\* numpy indexing of a coordinate row: a negative index counts from the end
Row(n, rows) == IF n < 0 THEN rows + n ELSE n

ShapePos(sh, n) ==
    IF sh.unit = "nm" THEN sh.site[Row(FnTAt(sh, n), sh.T + sh.B + sh.R)]
    ELSE GridPoint(Row(FnTAt(sh, n), sh.T + sh.B + sh.R) % 5)

HopLength(sh, hop) == Dist(ShapePos(sh, hop[1]), ShapePos(sh, hop[2]))

\* the true length of turbine i's link along its hops
LinkLength(sh, i) ==
    LET hops == LinkHops(sh, i)
    IN  SumSeq([h \in 1..Len(hops) |-> HopLength(sh, hops[h])])

\* the edges of the physical graph G in insertion order
RECURSIVE GEdgesFrom(_, _)
GEdgesFrom(sh, i) ==
    IF i = sh.T THEN <<>>
    ELSE LET hops == LinkHops(sh, i)
             es == [h \in 1..Len(hops) |->
                     [a |-> hops[h][1], b |-> hops[h][2],
                      length |-> HopLength(sh, hops[h])
                                 + (IF h = 1 THEN sh.real[i].skew ELSE 0),
                      load |-> SubtreeSize(sh.par, sh.T, i)]]
         IN  es \o GEdgesFrom(sh, i + 1)

FlipEdge(e) == [e EXCEPT !.a = e.b, !.b = e.a]

GEdges(sh) ==
    LET es == GEdgesFrom(sh, 0)
    IN  IF sh.flip THEN Reverse([k \in 1..Len(es) |-> FlipEdge(es[k])]) ELSE es

\* the edges of the logical tree S in iteration order; reverse is the
\* solver's flag: the power flows from the smaller to the larger index
SEdges(sh) ==
    LET es == [k \in 1..sh.T |->
                 LET i == k - 1
                 IN  [a |-> i, b |-> sh.par[i],
                      load |-> SubtreeSize(sh.par, sh.T, i),
                      reverse |-> i < sh.par[i]]]
    IN  IF sh.flip THEN Reverse([k \in 1..Len(es) |-> FlipEdge(es[k])]) ELSE es

\* One result of the solver: S, G (with its graph attributes), the
\* candidate-link lengths and root distances of A, and S.graph['max_load'].
SolverResult(sh) ==
    [ T |-> sh.T,
      S |-> SEdges(sh),
      G |-> [has |-> TRUE, T |-> sh.T, R |-> sh.R, VertexC |-> VertexCOf(sh),
             unit |-> sh.unit,
             fnT |-> IF NumRelays(sh) = 0 THEN [none |-> TRUE, map |-> <<>>]
                     ELSE [none |-> FALSE, map |-> FnT(sh)],
             edges |-> GEdges(sh)],
      A |-> [u \in Turbines(sh.T) |-> [v \in Turbines(sh.T) |->
                IF sh.par[u] = v THEN LinkLength(sh, u)
                ELSE IF sh.par[v] = u THEN LinkLength(sh, v)
                ELSE Dist(ShapePos(sh, u), ShapePos(sh, v))]],
      d2roots |-> [v \in Turbines(sh.T) |-> [u \in Roots(sh.R) |->
                Dist(ShapePos(sh, v), ShapePos(sh, u))]],
      max_load |-> SubtreeSize(sh.par, sh.T,
                     CHOOSE i \in Turbines(sh.T) : \A j \in Turbines(sh.T) :
                       SubtreeSize(sh.par, sh.T, j)
                         <= SubtreeSize(sh.par, sh.T, i)),
      shape |-> sh ]

\* ------------------------------------------------- networkx graph access
\* G[n]: the neighbours of n in insertion order of the edges
RECURSIVE Adj(_, _)
Adj(edges, n) ==
    IF edges = <<>> THEN <<>>
    ELSE LET e == Head(edges)
             rest == Adj(Tail(edges), n)
         IN  IF e.a = n THEN <<e.b>> \o rest
             ELSE IF e.b = n THEN <<e.a>> \o rest
             ELSE rest

SeqToSet(s) == {s[k] : k \in 1..Len(s)}

\* G[a][b]: the attributes of the edge between a and b
EdgeData(edges, a, b) ==
    LET k == CHOOSE k \in 1..Len(edges) :
                 \/ edges[k].a = a /\ edges[k].b = b
                 \/ edges[k].a = b /\ edges[k].b = a
    IN  edges[k]

\* G.size(weight='length')
GSize(edges) == SumSeq([k \in 1..Len(edges) |-> edges[k].length])

\* ------------------------------------------------------------- compute
\* numpy index of a vector of length n: negative indices wrap once
InRange(i, n) == -n <= i /\ i < n
Wrap(i, n) == IF i < 0 THEN n + i ELSE i

\* line 140: which endpoint of the canonical edge (u < v) originates it
Origin_Swapped(u, v, reverse) == IF reverse THEN v ELSE u
Origin(u, v, reverse) == IF reverse THEN u ELSE v

Target_Swapped(u, v, reverse) == IF reverse THEN u ELSE v
Target(u, v, reverse) == IF reverse THEN v ELSE u

\* line 142: load = edgeD['load']
EdgeLoad_Downstream(e) == e.load - 1
EdgeLoad(e) == e.load

\* lines 152-154: the for loop leaves fwd_hop at the first relay neighbour
\* that carries the load, or at the last neighbour when none does
RECURSIVE FirstHop(_, _, _, _, _)
FirstHop(edges, T, v, nbrs, load) ==
    IF Len(nbrs) = 1 THEN nbrs[1]
    ELSE IF nbrs[1] >= T /\ EdgeData(edges, v, nbrs[1]).load = load
         THEN nbrs[1]
         ELSE FirstHop(edges, T, v, Tail(nbrs), load)

\* line 160: the tuple on the right is built first, and it reads cur_hop
ReadCurHop_Initialized(cur_hop) == [bound |-> TRUE, val |-> cur_hop.val]
ReadCurHop(cur_hop) == cur_hop

\* lines 157-161: the while loop of the detour walk.  w holds the locals
\* fwd_hop, rev_hop, cur_hop, the length accumulated so far and the number
\* of completed iterations (hops); fuel counts
\* the iterations left before the walk is declared not to terminate.
RECURSIVE Walk(_, _, _, _)
Walk(edges, T, w, fuel) ==
    IF w.fwd_hop < T THEN [w EXCEPT !.err = "ok"]
    ELSE IF fuel = 0 THEN [w EXCEPT !.err = "Diverges"]
    ELSE
      LET nb == Adj(edges, w.fwd_hop)
      IN  IF Len(nb) # 2 THEN [w EXCEPT !.err = "ValueError"]
          ELSE
            LET temp == IF nb[2] = w.rev_hop THEN nb[1] ELSE nb[2]
                old == ReadCurHop(w.cur_hop)
            IN  IF ~old.bound THEN [w EXCEPT !.err = "UnboundLocalError"]
                ELSE Walk(edges, T,
                       [err |-> "ok", hops |-> w.hops + 1, fwd_hop |-> temp,
                        cur_hop |-> Bound(w.fwd_hop), rev_hop |-> old.val,
                        length |-> w.length
                           + EdgeData(edges, w.fwd_hop, temp).length],
                       fuel - 1)

\* the iterations of one walk that are followed: a walk still running
\* after these has revisited an edge and is reported as "Diverges"
WalkFuel(edges) == 2 * Len(edges) + 2

\* lines 150-161: a feeder <u, v> without a direct edge in G.  st holds the
\* locals of compute; k is the row of the output vectors being written.
Detour(sol, st, k, v, load) ==
    LET edges == sol.G.edges
        nbrs == Adj(edges, v)
        fwd == IF nbrs = <<>> THEN st.fwd_hop
               ELSE Bound(FirstHop(edges, sol.T, v, nbrs, load))
    IN  IF ~fwd.bound THEN [st EXCEPT !.err = "UnboundLocalError"]
        ELSE IF fwd.val \notin SeqToSet(nbrs)
        THEN [st EXCEPT !.err = "KeyError", !.fwd_hop = fwd]
        ELSE
          LET w == Walk(edges, sol.T,
                     [err |-> "ok", hops |-> 0, fwd_hop |-> fwd.val,
                      cur_hop |-> st.cur_hop, rev_hop |-> v,
                      length |-> EdgeData(edges, v, fwd.val).length],
                     WalkFuel(edges))
          IN  [st EXCEPT !.err = w.err, !.length_cables[k] = w.length,
                         !.hops = w.hops, !.fwd_hop = Bound(w.fwd_hop), !.cur_hop = w.cur_hop]

\* lines 139-164: the body of the loop over S.edges for one edge e
ProcessEdge(sol, st, e) ==
    LET u == Min2(e.a, e.b)
        v == Max2(e.a, e.b)
        i == Origin(u, v, e.reverse)
        target == Target(u, v, e.reverse)
    IN  IF ~InRange(i, sol.T) THEN [st EXCEPT !.err = "IndexError"]
        ELSE
          LET k == Wrap(i, sol.T)
              st1 == [st EXCEPT !.terse_links[k] = target,
                                !.load_cables[k] = EdgeLoad(e),
                                !.rows = Append(@, i)]
          IN  IF u < 0
              THEN IF v \in SeqToSet(Adj(sol.G.edges, u))
                   THEN [st1 EXCEPT !.length_cables[k] = sol.d2roots[v][u]]
                   ELSE Detour(sol, st1, k, v, EdgeLoad(e))
              ELSE [st1 EXCEPT !.length_cables[k] = sol.A[u][v]]

\* lines 132-134: the locals before the loop (np.zeros); rows records the
\* index i of every write, in order, and hops the completed iterations of
\* the last detour walk
Locals0(T) ==
    [err |-> "ok",
     terse_links |-> [k \in Turbines(T) |-> 0],
     length_cables |-> [k \in Turbines(T) |-> 0],
     load_cables |-> [k \in Turbines(T) |-> 0],
     fwd_hop |-> Unbound, cur_hop |-> Unbound, rows |-> <<>>, hops |-> 0]

\* lines 138-164: the loop over S.edges; an exception ends it
RECURSIVE EdgeLoop(_, _, _)
EdgeLoop(sol, st, es) ==
    IF es = <<>> \/ st.err # "ok" THEN st
    ELSE EdgeLoop(sol, ProcessEdge(sol, st, Head(es)), Tail(es))

EdgePass(sol) == EdgeLoop(sol, Locals0(sol.T), sol.S)

\* line 173: abs(length_cables.sum() - G.size(weight='length')) < 1e-7;
\* on lengths in whole metres the difference is below 1e-7 iff it is 0,
\* and 1e-7 m is 100 nm
LengthsAgree_Unchecked(total, size, unit) == TRUE
LengthsAgree(total, size, unit) ==
    Abs(total - size) < (IF unit = "nm" THEN 100 ELSE 1)

\* ------------------------------------------------------ compute_partials
\* A gradient row has two parts, << ux, uy, dx, dy >>, and stands for
\* (ux, uy) / GradUnit + (dx, dy) * unit: the sum of the unit vectors, as an
\* integer in units of 1/GradUnit (every edge norm of the site grid, 5, 6,
\* 8, 10, divides GradUnit, and a unit vector along an axis is 1 or -1),
\* and the sum of the difference vectors that were left undivided, in the
\* unit of the coordinates.
GradUnit == 5 * 6 * 8

\* line 193: np.isclose(norm, 0.0) with its default tolerances is
\* norm <= 1e-8, which is 10 nm
CloseTol == 10

\* the largest integer norm, in the unit of the coordinates, that
\* np.isclose(norm, 0.0) accepts: in whole metres only 0 is within 1e-8
Atol(unit) == IF unit = "nm" THEN CloseTol ELSE 0

\* lines 185-189: the coordinate index of a node of G
CoordIndex(G, n) == IF G.fnT.none THEN n ELSE G.fnT.map[n]

\* lines 190-194: the vector of edge e after the division.  Where
\* np.isclose(norm, 0.0), norm is set to 1.0 and the division leaves the
\* difference vector as it is; everywhere else it gives the unit vector.
\* (a mask that zeroed the vector instead would drop the difference of the
\* ends of an edge shorter than the tolerance)
UnitVec_ZeroWhereClose(G, e) ==
    LET rows == NumRows(G.VertexC)
        pu == G.VertexC[Row(CoordIndex(G, e.a), rows)]
        pv == G.VertexC[Row(CoordIndex(G, e.b), rows)]
        dx == pu[1] - pv[1]
        dy == pu[2] - pv[2]
    IN  IF dx * dx + dy * dy <= Atol(G.unit) * Atol(G.unit)
        THEN << 0, 0, 0, 0 >>
        ELSE << (dx * GradUnit) \div Hypot(dx, dy),
                (dy * GradUnit) \div Hypot(dx, dy), 0, 0 >>
UnitVec(G, e) ==
    LET rows == NumRows(G.VertexC)
        pu == G.VertexC[Row(CoordIndex(G, e.a), rows)]
        pv == G.VertexC[Row(CoordIndex(G, e.b), rows)]
        dx == pu[1] - pv[1]
        dy == pu[2] - pv[2]
    IN  IF dx * dx + dy * dy <= Atol(G.unit) * Atol(G.unit)
        THEN << 0, 0, dx, dy >>
        ELSE << (dx * GradUnit) \div Hypot(dx, dy),
                (dy * GradUnit) \div Hypot(dx, dy), 0, 0 >>

\* numpy.add.at / numpy.subtract.at: unbuffered, every occurrence of an
\* index counts.  sign is 1 for add.at and -1 for subtract.at; first says
\* whether the index array is _u (the edges' first endpoints) or _v.
\* (a buffered update, gradients[_u] += vec, keeps one occurrence per index)
AccumulateAt_Buffered(G, grad, es, first, sign) ==
    LET idx(k) == Row(CoordIndex(G, IF first THEN es[k].a ELSE es[k].b),
                      NumRows(G.VertexC))
    IN  [r \in DOMAIN grad |->
           IF \E k \in 1..Len(es) : idx(k) = r
           THEN LET k == CHOOSE k \in 1..Len(es) :
                          /\ idx(k) = r
                          /\ \A m \in (k + 1)..Len(es) : idx(m) # r
                    vec == UnitVec(G, es[k])
                IN  [c \in 1..4 |-> grad[r][c] + sign * vec[c]]
           ELSE grad[r]]

RECURSIVE AccumulateAt(_, _, _, _, _)
AccumulateAt(G, grad, es, first, sign) ==
    IF es = <<>> THEN grad
    ELSE LET e == Head(es)
             r == Row(CoordIndex(G, IF first THEN e.a ELSE e.b),
                      NumRows(G.VertexC))
             vec == UnitVec(G, e)
         IN  AccumulateAt(G,
                 [grad EXCEPT ![r] = [c \in 1..4 |-> @[c] + sign * vec[c]]],
                 Tail(es), first, sign)

\* lines 183-197
Gradients(G) ==
    LET g0 == [r \in 0..(NumRows(G.VertexC) - 1) |-> <<0, 0, 0, 0>>]
        added == AccumulateAt(G, g0, G.edges, TRUE, 1)
    IN  AccumulateAt(G, added, G.edges, FALSE, -1)

\* lines 199-205: the four blocks of the Jacobian, each in its two parts
Blocks(G, grad) ==
    LET rows == NumRows(G.VertexC)
    IN  [x_turbines |-> [i \in Turbines(G.T) |-> grad[i][1]],
         y_turbines |-> [i \in Turbines(G.T) |-> grad[i][2]],
         x_substations |-> [k \in 0..(G.R - 1) |-> grad[rows - G.R + k][1]],
         y_substations |-> [k \in 0..(G.R - 1) |-> grad[rows - G.R + k][2]],
         undivided |->
           [x_turbines |-> [i \in Turbines(G.T) |-> grad[i][3]],
            y_turbines |-> [i \in Turbines(G.T) |-> grad[i][4]],
            x_substations |->
                [k \in 0..(G.R - 1) |-> grad[rows - G.R + k][3]],
            y_substations |->
                [k \in 0..(G.R - 1) |-> grad[rows - G.R + k][4]]]]

\* every index of an edge of G is a row of VertexC
IndicesOk(G) ==
    \A k \in 1..Len(G.edges) :
        /\ InRange(CoordIndex(G, G.edges[k].a), NumRows(G.VertexC))
        /\ InRange(CoordIndex(G, G.edges[k].b), NumRows(G.VertexC))

\* ------------------------------------------------------ the state machine
VARIABLES
    shape,                \* the shape of the solver's result at the current
                          \* design point
    graph,                \* self.graph
    terse_links,          \* discrete_outputs["terse_links"]
    length_cables,        \* outputs["length_cables"]
    load_cables,          \* outputs["load_cables"]
    max_load_cables,      \* outputs["max_load_cables"]
    total_length_cables,  \* outputs["total_length_cables"]
    J,                    \* the Jacobian blocks compute_partials returned
    status,               \* how the last call ended
    lastOp,               \* the last handler called
    locals,               \* compute's locals when its edge loop ended
    call,                 \* one call of a function of ard.utils.geometry or
                          \* ard.cost.orbit_wrap: its arguments and outcome
    grid                  \* a GeomorphologyGridData object

collectionVars == <<shape, graph, terse_links, length_cables, load_cables,
                    max_load_cables, total_length_cables, J, status, lastOp,
                    locals>>

vars == <<shape, graph, terse_links, length_cables, load_cables,
          max_load_cables, total_length_cables, J, status, lastOp, locals,
          call, grid>>

\* line 129: what the solver returns at the current design point
res == SolverResult(shape)

\* before the first compute the component has no attribute graph
NoGraph ==
    [has |-> FALSE, T |-> 0, R |-> 0, VertexC |-> <<>>, unit |-> "m",
     fnT |-> [none |-> TRUE, map |-> <<>>], edges |-> <<>>]

\* no Jacobian has been returned: compute returns none, and the J of an
\* earlier design point is not kept
NoJ == [x_turbines |-> <<>>, y_turbines |-> <<>>,
        x_substations |-> <<>>, y_substations |-> <<>>,
        undivided |-> [x_turbines |-> <<>>, y_turbines |-> <<>>,
                       x_substations |-> <<>>, y_substations |-> <<>>]]

\* no function call is under way
NoCall == [op |-> "none", done |-> FALSE]

\* the class attributes of GeomorphologyGridData (geomorphology.py, lines
\* 17-22): 1 x 1 meshes and a material mesh of shape (1,)
GridDefaults ==
    [x_mesh |-> <<1, 1>>, y_mesh |-> <<1, 1>>, depth_mesh |-> <<1, 1>>,
     material_mesh |-> <<1>>, op |-> "new", raised |-> "none",
     returned |-> <<>>]

Init ==
    /\ call = NoCall
    /\ grid = GridDefaults
    /\ \E T \in 1..(MaxNodes - 1) :
        \E R \in 1..(MaxNodes - T) :
          \E par \in Forests(T, R) :
            \E B \in {0, 1}, real \in Realizations(T, par), flip \in BOOLEAN :
              shape = Shape(T, R, B, par, real, flip)
    /\ graph = NoGraph
    /\ terse_links = [k \in Turbines(shape.T) |-> 0]
    /\ length_cables = [k \in Turbines(shape.T) |-> 0]
    /\ load_cables = [k \in Turbines(shape.T) |-> 0]
    /\ max_load_cables = 0
    /\ total_length_cables = 0
    /\ J = NoJ
    /\ status = "none"
    /\ lastOp = "setup"
    /\ locals = Locals0(shape.T)

\* line 167: self.graph = G
StoredGraph_Discarded(G) == NoGraph
StoredGraph(G) == G

\* compute as it would be with the assertion ahead of the stores of lines
\* 167-171: a failing evaluation would leave every output and self.graph
\* as they were
Compute_Atomic ==
    /\ lastOp' = "compute"
    /\ J' = NoJ
    /\ UNCHANGED <<shape, call, grid>>
    /\ LET r == res
           st == EdgePass(r)
           total == SumTo(st.length_cables, r.T)
       IN  /\ locals' = st
           /\ IF st.err # "ok"
              THEN /\ status' = st.err
                   /\ UNCHANGED <<graph, terse_links, length_cables,
                                  load_cables, max_load_cables,
                                  total_length_cables>>
              ELSE IF ~LengthsAgree(total, GSize(r.G.edges), r.G.unit)
              THEN /\ status' = "AssertionError"
                   /\ UNCHANGED <<graph, terse_links, length_cables,
                                  load_cables, max_load_cables,
                                  total_length_cables>>
              ELSE /\ graph' = StoredGraph(r.G)
                   /\ terse_links' = st.terse_links
                   /\ length_cables' = st.length_cables
                   /\ load_cables' = st.load_cables
                   /\ max_load_cables' = r.max_load
                   /\ total_length_cables' = total
                   /\ status' = "ok"

\* OptiwindnetCollection.compute, lines 93-174
Compute ==
    /\ lastOp' = "compute"
    /\ J' = NoJ
    /\ UNCHANGED <<shape, call, grid>>
    /\ LET r == res
           st == EdgePass(r)
           total == SumTo(st.length_cables, r.T)
       IN  /\ locals' = st
           /\ IF st.err # "ok"
              THEN /\ status' = st.err
                   /\ UNCHANGED <<graph, terse_links, length_cables,
                                  load_cables, max_load_cables,
                                  total_length_cables>>
              ELSE /\ graph' = StoredGraph(r.G)
                   /\ terse_links' = st.terse_links
                   /\ length_cables' = st.length_cables
                   /\ load_cables' = st.load_cables
                   /\ max_load_cables' = r.max_load
                   /\ IF LengthsAgree(total, GSize(r.G.edges), r.G.unit)
                      THEN /\ total_length_cables' = total
                           /\ status' = "ok"
                      ELSE /\ status' = "AssertionError"
                           /\ UNCHANGED total_length_cables

\* OptiwindnetCollection.compute_partials, lines 176-207
ComputePartials ==
    /\ lastOp' = "compute_partials"
    /\ UNCHANGED <<shape, graph, terse_links, length_cables, load_cables,
                   max_load_cables, total_length_cables, locals, call, grid>>
    /\ IF ~graph.has
       THEN status' = "AttributeError" /\ UNCHANGED J
       ELSE IF ~IndicesOk(graph)
       THEN status' = "IndexError" /\ UNCHANGED J
       ELSE /\ J' = Blocks(graph, Gradients(graph))
            /\ status' = "ok"

\* the optimizer moves the design point a little: the next evaluation gets
\* another result of the solver for the same farm (T, R and B are fixed at
\* setup) and the same tree, with its links realized differently
MoveDesign ==
    /\ lastOp # "setup"
    /\ shape.T + shape.R <= MaxSeqNodes
    /\ \E real \in Realizations(shape.T, shape.par) :
        /\ real # shape.real
        /\ shape' = [shape EXCEPT !.real = real]
    /\ lastOp' = "inputs"
    /\ locals' = Locals0(shape.T)
    /\ J' = NoJ
    /\ UNCHANGED <<graph, terse_links, length_cables, load_cables,
                   max_load_cables, total_length_cables, status, call, grid>>

Next == Compute \/ ComputePartials \/ MoveDesign

Spec == Init /\ [][Next]_vars

\* A component set up for a farm a few nanometres across, where an edge
\* can be shorter than the tolerance of np.isclose without having length
\* zero; lengths are in the unit of the coordinates.
InitNear ==
    /\ call = NoCall
    /\ grid = GridDefaults
    /\ \E T \in 1..MaxSeqNodes :
        \E R \in 1..(MaxSeqNodes + 1 - T) :
          \E par \in Forests(T, R), site \in NearSites(T + R) :
            shape = NearShape(T, R, par, site)
    /\ graph = NoGraph
    /\ terse_links = [k \in Turbines(shape.T) |-> 0]
    /\ length_cables = [k \in Turbines(shape.T) |-> 0]
    /\ load_cables = [k \in Turbines(shape.T) |-> 0]
    /\ max_load_cables = 0
    /\ total_length_cables = 0
    /\ J = NoJ
    /\ status = "none"
    /\ lastOp = "setup"
    /\ locals = Locals0(shape.T)

NextNear == Compute \/ ComputePartials

SpecNear == InitNear /\ [][NextNear]_vars

\* ------------------------------------------------------------- properties
\* a solved collection graph: every link is realized by a direct edge or a
\* well-formed relay chain, and the lengths of G agree with the tables of A
Solved(sh) ==
    \A i \in Turbines(sh.T) :
        sh.real[i].kind \in {"direct", "chain"} /\ sh.real[i].skew = 0

\* turbine i's feeder is detoured: it reaches its substation through relays
DetouredFeeder(sh, i) == sh.par[i] < 0 /\ sh.real[i].kind = "chain"

\* the feeder of some turbine leads into relays that never reach a node
\* below T
Malformed(sh) ==
    \E i \in Turbines(sh.T) : sh.real[i].kind \in {"deadend", "cycle"}

\* length_cables.sum() of the locals of the last compute
LocalsTotal == SumTo(locals.length_cables, shape.T)

\* C1: for every solved collection graph (direct feeders, detoured feeders
\* and links between turbines alike) compute finishes its pass over the
\* edges of S, and the sum of length_cables then equals
\* G.size(weight='length').
C1_LengthConservation ==
    (lastOp = "compute" /\ Solved(shape)) =>
        /\ locals.err = "ok"
        /\ Abs(LocalsTotal - GSize(res.G.edges)) = 0

\* the k-th edge of S that compute processed, canonical (u < v)
EdgeU(k) == Min2(res.S[k].a, res.S[k].b)
EdgeV(k) == Max2(res.S[k].a, res.S[k].b)

\* no later edge of the pass wrote the row that edge k wrote
LastWrite(k) ==
    \A m \in (k + 1)..Len(locals.rows) :
        Wrap(locals.rows[m], shape.T) # Wrap(locals.rows[k], shape.T)

\* C2 as stated: the origin of a canonical edge is v when its reverse flag
\* is True and u when it is False; target is stored in terse_links[origin]
\* and the edge's load in load_cables[origin].
C2_OriginAsStated ==
    lastOp = "compute" =>
        \A k \in 1..Len(locals.rows) :
            /\ locals.rows[k] = (IF res.S[k].reverse THEN EdgeV(k) ELSE EdgeU(k))
            /\ LastWrite(k) =>
                 /\ locals.terse_links[Wrap(locals.rows[k], shape.T)]
                      = (IF res.S[k].reverse THEN EdgeU(k) ELSE EdgeV(k))
                 /\ locals.load_cables[Wrap(locals.rows[k], shape.T)]
                      = res.S[k].load

\* C2 amended: the origin of a canonical edge (u < v) is u and its target v
\* when the reverse flag is True, and the origin is v and the target u when
\* it is False; target is stored in terse_links[origin] and the edge's load
\* in load_cables[origin].
C2_OriginByReverse ==
    lastOp = "compute" =>
        \A k \in 1..Len(locals.rows) :
            /\ locals.rows[k] = (IF res.S[k].reverse THEN EdgeU(k) ELSE EdgeV(k))
            /\ LastWrite(k) =>
                 /\ locals.terse_links[Wrap(locals.rows[k], shape.T)]
                      = (IF res.S[k].reverse THEN EdgeV(k) ELSE EdgeU(k))
                 /\ locals.load_cables[Wrap(locals.rows[k], shape.T)]
                      = res.S[k].load

\* a pass that processed an edge with the flag set and one without
C2_Witness ==
    /\ lastOp = "compute"
    /\ \E k \in 1..Len(locals.rows) : res.S[k].reverse
    /\ \E k \in 1..Len(locals.rows) : ~res.S[k].reverse

\* C3: for a solved tree over T turbines the edge pass writes every index
\* 0..T-1 exactly once as the row of terse_links: none is left unwritten,
\* none is written twice, and no write lands outside 0..T-1.
C3_TerseLinkTotality ==
    (lastOp = "compute" /\ Solved(shape)) =>
        /\ \A k \in 1..Len(locals.rows) : locals.rows[k] \in Turbines(shape.T)
        /\ \A i \in Turbines(shape.T) :
             Cardinality({k \in 1..Len(locals.rows) : locals.rows[k] = i}) = 1

\* C4: the detour walk never runs without end: it completes no more hops
\* than G has relay nodes, and on a malformed graph (relays that never lead
\* to a node below T) compute ends with an error raised to its caller.
C4_WalkStops ==
    lastOp = "compute" =>
        /\ locals.err # "Diverges"
        /\ locals.hops <= NumRelays(shape)
        /\ Malformed(shape) =>
             /\ locals.err \in {"ValueError", "UnboundLocalError"}
             /\ status = locals.err

\* a malformed graph was evaluated and compute raised
C4_Witness ==
    /\ lastOp = "compute"
    /\ Malformed(shape)
    /\ status = "ValueError"

\* C5: for a detoured feeder of a solved graph compute sets
\* length_cables[origin] to the sum of the lengths of the hops of its relay
\* chain, each hop once, whatever the neighbour order of G.
C5_DetourLength ==
    (lastOp = "compute" /\ Solved(shape)) =>
        \A i \in Turbines(shape.T) :
            DetouredFeeder(shape, i) =>
                /\ locals.err = "ok"
                /\ locals.length_cables[i] = LinkLength(shape, i)

\* C6: when the edge pass has finished and the sum of length_cables differs
\* from G.size(weight='length'), compute ends with an error (the assert)
\* and total_length_cables is not set: it keeps the value it had.
C6_AssertAborts ==
    [][ ( /\ lastOp' = "compute"
          /\ locals'.err = "ok"
          /\ SumTo(locals'.length_cables, shape'.T)
               # GSize(SolverResult(shape').G.edges) )
        => ( /\ status' = "AssertionError"
             /\ total_length_cables' = total_length_cables ) ]_vars

\* an evaluation whose lengths disagree ended in the assert
C6_Witness ==
    /\ lastOp = "compute"
    /\ locals.err = "ok"
    /\ LocalsTotal # GSize(res.G.edges)
    /\ status = "AssertionError"

\* a star: every turbine is joined to the same substation by a direct edge
IsStar(sh, u) ==
    \A i \in Turbines(sh.T) : sh.par[i] = u /\ sh.real[i] = Direct

\* C7: for a star graph around substation u compute ends normally with
\* terse_links[i] = u for every turbine i and length_cables[i] equal to
\* d2roots[i, u], the distance from turbine i to the substation.
C7_Star ==
    \A u \in Roots(shape.R) :
        (lastOp = "compute" /\ IsStar(shape, u)) =>
            /\ status = "ok"
            /\ \A i \in Turbines(shape.T) :
                 /\ terse_links[i] = u
                 /\ length_cables[i] = res.d2roots[i][u]
                 /\ length_cables[i] =
                      Dist(res.G.VertexC[i],
                           res.G.VertexC[Row(u, NumRows(res.G.VertexC))])

\* a star of at least two turbines was evaluated
C7_Witness ==
    /\ lastOp = "compute"
    /\ status = "ok"
    /\ shape.T >= 2
    /\ \E u \in Roots(shape.R) : IsStar(shape, u)

\* the coordinate row of node n of the stored graph
CoordRow(n) == Row(CoordIndex(graph, n), NumRows(graph.VertexC))

\* the sum over the edges of the stored graph incident to coordinate row r
\* of the unit vector that points from the other endpoint to r, component c
IncidentSum(r, c) ==
    SumSeq([k \in 1..Len(graph.edges) |->
              (IF CoordRow(graph.edges[k].a) = r
               THEN UnitVec(graph, graph.edges[k])[c] ELSE 0)
            - (IF CoordRow(graph.edges[k].b) = r
               THEN UnitVec(graph, graph.edges[k])[c] ELSE 0)])

\* C8: compute_partials returns, for every turbine (rows 0..T-1) and every
\* substation (the last R rows, in input order), the sum over the edges of
\* G incident to it, relay indices mapped through fnT, of the unit vector
\* from the other endpoint: +unit at an edge's first endpoint, -unit at its
\* second; x and y of these rows are the four Jacobian blocks.
C8_Gradient ==
    (lastOp = "compute_partials" /\ status = "ok") =>
        /\ DOMAIN J.x_turbines = Turbines(graph.T)
        /\ DOMAIN J.y_turbines = Turbines(graph.T)
        /\ DOMAIN J.x_substations = 0..(graph.R - 1)
        /\ DOMAIN J.y_substations = 0..(graph.R - 1)
        /\ \A i \in Turbines(graph.T) :
             /\ J.x_turbines[i] = IncidentSum(i, 1)
             /\ J.y_turbines[i] = IncidentSum(i, 2)
        /\ \A k \in 0..(graph.R - 1) :
             LET r == NumRows(graph.VertexC) - graph.R + k
             IN  /\ J.x_substations[k] = IncidentSum(r, 1)
                 /\ J.y_substations[k] = IncidentSum(r, 2)

\* the number of edge endpoints of the stored graph at coordinate row r
Incidence(r) ==
    Cardinality({k \in 1..Len(graph.edges) : CoordRow(graph.edges[k].a) = r})
    + Cardinality({k \in 1..Len(graph.edges) : CoordRow(graph.edges[k].b) = r})

\* a Jacobian of a graph with relay nodes, where a turbine has several
\* incident edges and a gradient that is not zero
C8_Witness ==
    /\ lastOp = "compute_partials"
    /\ status = "ok"
    /\ ~graph.fnT.none
    /\ \E i \in Turbines(graph.T) :
         /\ Incidence(i) >= 3
         /\ <<J.x_turbines[i], J.y_turbines[i]>> # <<0, 0>>

\* the turbines whose chain of terse_links passes through i (i included)
Collected(i) ==
    {j \in Turbines(shape.T) : OnPath(terse_links, j, i, shape.T)}

\* C9: load_cables[i] written by compute is the number of turbines the
\* cable from i collects: i and every turbine whose chain of terse_links
\* passes through i; so load_cables[i] >= 1, and load_cables[j] >=
\* load_cables[i] whenever terse_links[i] = j is a turbine.
C9_Load ==
    (lastOp = "compute" /\ locals.err = "ok") =>
        \A i \in Turbines(shape.T) :
            /\ load_cables[i] = Cardinality(Collected(i))
            /\ load_cables[i] >= 1
            /\ terse_links[i] >= 0 =>
                 load_cables[terse_links[i]] >= load_cables[i]

\* an evaluation of a tree where a cable collects several turbines
C9_Witness ==
    /\ lastOp = "compute"
    /\ locals.err = "ok"
    /\ \E i \in Turbines(shape.T) :
         terse_links[i] >= 0 /\ load_cables[terse_links[i]] >= 2

\* C10 as stated: after compute has returned the component keeps no graph
\* of that evaluation.
C10_GraphDiscarded ==
    (lastOp = "compute" /\ status = "ok") => ~graph.has

\* C10 amended: the physical graph of an evaluation is kept: when compute
\* has finished its edge pass, self.graph is the graph G of that evaluation
\* (also when the length assertion then fails); when compute raises during
\* the pass, self.graph stays what it was.
C10_GraphKept ==
    [][ lastOp' = "compute" =>
          graph' = IF locals'.err = "ok" THEN SolverResult(shape').G
                   ELSE graph ]_vars

\* compute has returned and the graph of the evaluation is in self.graph
C10_Witness ==
    /\ lastOp = "compute"
    /\ status = "ok"
    /\ graph.has
    /\ graph = res.G

\* ---------------------------------------------- idle parts of the state
\* the collection component as constructed, for a farm of one turbine
IdleShape ==
    Shape(1, 1, 0, [i \in Turbines(1) |-> -1], [i \in Turbines(1) |-> Direct],
          FALSE)

CollectionIdle ==
    /\ shape = IdleShape
    /\ graph = NoGraph
    /\ terse_links = [k \in Turbines(1) |-> 0]
    /\ length_cables = [k \in Turbines(1) |-> 0]
    /\ load_cables = [k \in Turbines(1) |-> 0]
    /\ max_load_cables = 0
    /\ total_length_cables = 0
    /\ J = NoJ
    /\ status = "none"
    /\ lastOp = "setup"
    /\ locals = Locals0(1)

\* ------------------------------------------ ard/utils/geometry.py: numbers
\* Coordinates are exact rationals: a point is [x, y, d], the point
\* (x/d, y/d) with d >= 1; segment endpoints and polygon vertices are
\* integer pairs <<x, y>>.  A length is kept as its square, an exact
\* rational [n, d] in lowest terms: the order of two lengths and a length
\* being zero are those of their squares.
RECURSIVE Gcd(_, _)
Gcd(a, b) == IF b = 0 THEN a ELSE Gcd(b, a % b)

Length(n, d) ==
    IF n = 0 THEN [n |-> 0, d |-> 1]
    ELSE LET g == Gcd(n, d) IN [n |-> n \div g, d |-> d \div g]

ZeroLength == Length(0, 1)

RatPoint(x, y, d) ==
    LET g == Gcd(Gcd(Abs(x), Abs(y)), d)
    IN  [x |-> x \div g, y |-> y \div g, d |-> d \div g]

IntPoint(p) == [x |-> p[1], y |-> p[2], d |-> 1]

LengthLess(r1, r2) == r1.n * r2.d < r2.n * r1.d

\* ard.utils.mathematics.smooth_norm of the vector (vx, vy)/d: the
\* Euclidean norm up to the smoothing buffer
SmoothNorm(vx, vy, d) == Length(vx * vx + vy * vy, d * d)

\* ard.utils.mathematics.smooth_min of a vector of lengths: the least of
\* them up to the smoothing error
SmoothMin(ds) ==
    ds[CHOOSE k \in 1..Len(ds) :
         \A m \in 1..Len(ds) : ~LengthLess(ds[m], ds[k])]

\* ------------------------------------------- point-to-segment distance
\* lines 615-621: projection = dot(point - start, vector) / dot(vector,
\* vector), the rational n/d
Projection_Unnormalized(point, segment_start, segment_vector) ==
    [n |-> (point.x - segment_start[1] * point.d) * segment_vector[1]
           + (point.y - segment_start[2] * point.d) * segment_vector[2],
     d |-> point.d]
Projection(point, segment_start, segment_vector) ==
    [n |-> (point.x - segment_start[1] * point.d) * segment_vector[1]
           + (point.y - segment_start[2] * point.d) * segment_vector[2],
     d |-> point.d * (segment_vector[1] * segment_vector[1]
                      + segment_vector[2] * segment_vector[2])]

\* get_closest_point_on_line_seg, lines 596-646
GetClosestPointOnLineSeg_Unclamped(point, segment_start, segment_end, segment_vector) ==
    LET projection == Projection(point, segment_start, segment_vector)
    IN  RatPoint(
          segment_start[1] * projection.d + projection.n * segment_vector[1],
          segment_start[2] * projection.d + projection.n * segment_vector[2],
          projection.d)
GetClosestPointOnLineSeg(point, segment_start, segment_end, segment_vector) ==
    LET projection == Projection(point, segment_start, segment_vector)
    IN  IF projection.n < 0 THEN IntPoint(segment_start)
        ELSE IF projection.n > projection.d THEN IntPoint(segment_end)
        ELSE RatPoint(
               segment_start[1] * projection.d + projection.n * segment_vector[1],
               segment_start[2] * projection.d + projection.n * segment_vector[2],
               projection.d)

\* distance_point_to_lineseg_nd, lines 546-590
DistancePointToLinesegNd(point, segment_start, segment_end) ==
    LET segment_vector == << segment_end[1] - segment_start[1],
                             segment_end[2] - segment_start[2] >>
    IN  IF segment_vector = <<0, 0>>
        THEN SmoothNorm(segment_start[1] * point.d - point.x,
                        segment_start[2] * point.d - point.y, point.d)
        ELSE LET c == GetClosestPointOnLineSeg(point, segment_start,
                                               segment_end, segment_vector)
             IN  SmoothNorm(point.x * c.d - c.x * point.d,
                            point.y * c.d - c.y * point.d, point.d * c.d)

\* ----------------------------------------- segment-to-segment distance
\* 2-d inputs are padded with z = 0 (lines 518-522): the cross product of
\* two segment vectors has only its z component, Cross2
Cross2(u, v) == u[1] * v[2] - u[2] * v[1]

Vec(from, to) == << to[1] - from[1], to[2] - from[2] >>

\* _distance_lineseg_to_lineseg_coplanar, lines 330-359
DistanceLinesegToLinesegCoplanar(line_a_start, line_a_end, line_b_start, line_b_end) ==
    SmoothMin(<<
      DistancePointToLinesegNd(IntPoint(line_a_start), line_b_start, line_b_end),
      DistancePointToLinesegNd(IntPoint(line_a_end), line_b_start, line_b_end),
      DistancePointToLinesegNd(IntPoint(line_b_start), line_a_start, line_a_end),
      DistancePointToLinesegNd(IntPoint(line_b_end), line_a_start, line_a_end) >>)

\* line 499: denominator = smooth_norm(cross(line_b_vector, line_a_vector))^2
Denominator(line_a_vector, line_b_vector) ==
    Cross2(line_b_vector, line_a_vector) * Cross2(line_b_vector, line_a_vector)

\* line 512: denominator <= tol; tol is 1e-12 and the denominator of integer
\* segments is an integer plus the square of the smoothing buffer
DenomLeTol_Never(denominator) == FALSE
DenomLeTol(denominator) == denominator < 1

\* line 433: det of the columns a - x, u, cross(u, v), with cross(u, v) =
\* (0, 0, c)
SNumerator(a, x, u, v) == Cross2(u, v) * Cross2(Vec(x, a), u)

\* line 434: det of the columns a - x, v, cross(u, v)
TNumerator_FromU(a, x, u, v) == Cross2(u, v) * Cross2(Vec(x, a), u)
TNumerator(a, x, u, v) == Cross2(u, v) * Cross2(Vec(x, a), v)

\* lines 436-437: a numerator over the denominator; a zero cross product
\* leaves the square of the smoothing buffer as denominator
Ratio(numerator, denominator) ==
    [n |-> numerator, d |-> IF denominator = 0 THEN 1 ELSE denominator]

\* lines 441-465: the closest point of a line, its parameter clamped
ClosestPointLine(line_start, line_end, line_vector, st) ==
    IF st.n > st.d THEN IntPoint(line_end)
    ELSE IF st.n < 0 THEN IntPoint(line_start)
    ELSE RatPoint(line_start[1] * st.d + st.n * line_vector[1],
                  line_start[2] * st.d + st.n * line_vector[2], st.d)

\* denom_gt_tol, lines 419-489
DenomGtTol(line_a_start, line_a_end, line_b_start, line_b_end, line_a_vector, line_b_vector, denominator) ==
    LET s == Ratio(SNumerator(line_a_start, line_b_start, line_b_vector,
                              line_a_vector), denominator)
        t == Ratio(TNumerator(line_a_start, line_b_start, line_b_vector,
                              line_a_vector), denominator)
        pa == ClosestPointLine(line_a_start, line_a_end, line_a_vector, s)
        pb == ClosestPointLine(line_b_start, line_b_end, line_b_vector, t)
        parametric_distance ==
            SmoothNorm(pb.x * pa.d - pa.x * pb.d, pb.y * pa.d - pa.y * pb.d,
                       pa.d * pb.d)
    IN  SmoothMin(<< parametric_distance,
                     DistancePointToLinesegNd(pa, line_b_start, line_b_end),
                     DistancePointToLinesegNd(pb, line_a_start, line_a_end) >>)

\* distance_lineseg_to_lineseg_nd, lines 365-540; branch names the case
\* taken
DistanceLinesegToLinesegNd(line_a_start, line_a_end, line_b_start, line_b_end) ==
    LET line_a_vector == Vec(line_a_start, line_a_end)
        line_b_vector == Vec(line_b_start, line_b_end)
        denominator == Denominator(line_a_vector, line_b_vector)
    IN  IF line_a_vector = <<0, 0>>
        THEN [branch |-> "a_is_point",
              distance |-> DistancePointToLinesegNd(IntPoint(line_a_start),
                               line_b_start, line_b_end)]
        ELSE IF line_b_vector = <<0, 0>>
        THEN [branch |-> "b_is_point",
              distance |-> DistancePointToLinesegNd(IntPoint(line_b_start),
                               line_a_start, line_a_end)]
        ELSE IF DenomLeTol(denominator)
        THEN [branch |-> "denom_lt_tol",
              distance |-> DistanceLinesegToLinesegCoplanar(line_a_start,
                               line_a_end, line_b_start, line_b_end)]
        ELSE [branch |-> "denom_gt_tol",
              distance |-> DenomGtTol(line_a_start, line_a_end, line_b_start,
                               line_b_end, line_a_vector, line_b_vector,
                               denominator)]

\* ------------------------------------- the calls of the distance functions
GridPoints == (0..GridMax) \X (0..GridMax)

\* query points: every k/d in the grid's box, in lowest terms
QueryPoints ==
    { RatPoint(x, y, d) : x \in 0..(GridMax * MaxDen),
                          y \in 0..(GridMax * MaxDen), d \in 1..MaxDen }

InBox(p) == p.x <= GridMax * p.d /\ p.y <= GridMax * p.d

NoDistance == [branch |-> "none", distance |-> ZeroLength]

InitSeg ==
    /\ CollectionIdle
    /\ grid = GridDefaults
    /\ \/ \E point \in QueryPoints, a \in GridPoints, b \in GridPoints :
            /\ InBox(point)
            /\ call = [op |-> "distance_point_to_lineseg_nd", done |-> FALSE,
                       point |-> point, a |-> a, b |-> b, c |-> a, d |-> b,
                       out |-> NoDistance]
       \/ \E a \in GridPoints, b \in GridPoints, c \in GridPoints,
             d \in GridPoints :
            call = [op |-> "distance_lineseg_to_lineseg_nd", done |-> FALSE,
                    point |-> IntPoint(a), a |-> a, b |-> b, c |-> c, d |-> d,
                    out |-> NoDistance]

\* one call distance_point_to_lineseg_nd(point, a, b)
PointToLineseg ==
    /\ call.op = "distance_point_to_lineseg_nd" /\ ~call.done
    /\ call' = [call EXCEPT !.done = TRUE,
                  !.out = [branch |-> "point",
                           distance |-> DistancePointToLinesegNd(call.point,
                                            call.a, call.b)]]
    /\ UNCHANGED <<collectionVars, grid>>

\* one call distance_lineseg_to_lineseg_nd(a, b, c, d)
LinesegToLineseg ==
    /\ call.op = "distance_lineseg_to_lineseg_nd" /\ ~call.done
    /\ call' = [call EXCEPT !.done = TRUE,
                  !.out = DistanceLinesegToLinesegNd(call.a, call.b,
                                                     call.c, call.d)]
    /\ UNCHANGED <<collectionVars, grid>>

NextSeg == PointToLineseg \/ LinesegToLineseg

SpecSeg == InitSeg /\ [][NextSeg]_vars

\* the point lies on the segment from a to b: it is start + t (end - start)
\* for a t in [0, 1]
OnSegment(p, a, b) ==
    LET v == Vec(a, b)
        w == << p.x - a[1] * p.d, p.y - a[2] * p.d >>
    IN  /\ Cross2(w, v) = 0
        /\ 0 <= w[1] * v[1] + w[2] * v[2]
        /\ w[1] * v[1] + w[2] * v[2] <= p.d * (v[1] * v[1] + v[2] * v[2])

\* C12: for a segment with distinct endpoints and a point start + t (end -
\* start), t in [0, 1], endpoints included, distance_point_to_lineseg_nd
\* returns 0.
C12_OnSegmentZero ==
    ( /\ call.op = "distance_point_to_lineseg_nd" /\ call.done
      /\ call.a # call.b
      /\ OnSegment(call.point, call.a, call.b) )
    => call.out.distance = ZeroLength

\* a point strictly inside a segment, not at a grid point, was measured
C12_Witness ==
    /\ call.op = "distance_point_to_lineseg_nd" /\ call.done
    /\ call.a # call.b
    /\ OnSegment(call.point, call.a, call.b)
    /\ call.point.d > 1
    /\ call.out.distance = ZeroLength

\* the same call with the two segments exchanged
Swapped == DistanceLinesegToLinesegNd(call.c, call.d, call.a, call.b)

\* the case of the exchanged call that corresponds to a case
MirrorBranch(b) ==
    CASE b = "a_is_point" /\ call.c # call.d -> "b_is_point"
      [] b = "b_is_point" -> "a_is_point"
      [] OTHER -> b

\* C13: distance_lineseg_to_lineseg_nd(a_start, a_end, b_start, b_end)
\* equals distance_lineseg_to_lineseg_nd(b_start, b_end, a_start, a_end)
\* in each of its four cases.
C13_Symmetric ==
    (call.op = "distance_lineseg_to_lineseg_nd" /\ call.done) =>
        /\ Swapped.distance = call.out.distance
        /\ Swapped.branch = MirrorBranch(call.out.branch)

\* two skew segments that do not touch were measured
C13_Witness ==
    /\ call.op = "distance_lineseg_to_lineseg_nd" /\ call.done
    /\ call.out.branch = "denom_gt_tol"
    /\ call.out.distance # ZeroLength
    /\ call.out.distance.d > 1

\* the position of point p along the line of segment a-b, in units of the
\* segment vector's square: 0 at a, |b - a|^2 at b
Along(p, a, b) ==
    (p[1] - a[1]) * (b[1] - a[1]) + (p[2] - a[2]) * (b[2] - a[2])

\* two proper segments on one line whose stretches of that line meet
CollinearOverlap(a, b, c, d) ==
    /\ a # b /\ c # d
    /\ Cross2(Vec(a, b), Vec(c, d)) = 0
    /\ Cross2(Vec(a, c), Vec(a, b)) = 0
    /\ Max2(0, Min2(Along(c, a, b), Along(d, a, b)))
         <= Min2(Along(b, a, b), Max2(Along(c, a, b), Along(d, a, b)))

\* C14: for two proper segments that are collinear and overlap,
\* distance_lineseg_to_lineseg_nd takes the near-parallel branch and
\* returns 0, the least of the four endpoint-to-segment distances, a
\* number.
C14_CollinearOverlapZero ==
    ( /\ call.op = "distance_lineseg_to_lineseg_nd" /\ call.done
      /\ CollinearOverlap(call.a, call.b, call.c, call.d) )
    => /\ call.out.branch = "denom_lt_tol"
       /\ call.out.distance = ZeroLength
       /\ call.out.distance.d > 0
       /\ \E p \in {call.a, call.b} :
            DistancePointToLinesegNd(IntPoint(p), call.c, call.d) = ZeroLength
          \/ \E q \in {call.c, call.d} :
            DistancePointToLinesegNd(IntPoint(q), call.a, call.b) = ZeroLength

\* two overlapping collinear segments, neither holding the other's start
C14_Witness ==
    /\ call.op = "distance_lineseg_to_lineseg_nd" /\ call.done
    /\ CollinearOverlap(call.a, call.b, call.c, call.d)
    /\ ~OnSegment(IntPoint(call.a), call.c, call.d)
    /\ ~OnSegment(IntPoint(call.c), call.a, call.b)
    /\ call.out.distance = ZeroLength

\* ------------------------------------- point-to-polygon signed distance
\* a signed distance: the length mag, negated when neg
Signed(neg, mag) == [neg |-> neg, mag |-> mag]

\* lines 177-179: the x of the point lies between the x of the edge's ends
XCondition(edge_start, edge_end, point) ==
    \/ edge_start[1] * point.d <= point.x /\ point.x < edge_end[1] * point.d
    \/ edge_start[1] * point.d >= point.x /\ point.x > edge_end[1] * point.d

\* lines 182-187: point[1] < y, with y the height of the edge's line at the
\* point's x.  Only evaluated where XCondition holds (dx # 0).  shifted
\* says whether dx + shift differs from dx in float32: not for the default
\* shift of 1e-10, but for a shift of 1e-6; a shift that counts moves y
\* away from the exact height, down on a rising edge and up on a falling
\* one, which decides the comparison when the point is on the line.
PointBelowLine(edge_start, edge_end, point, shifted) ==
    LET dx == edge_end[1] - edge_start[1]
        dy == edge_end[2] - edge_start[2]
        px == point.x - edge_start[1] * point.d
        py == point.y - edge_start[2] * point.d
        lhs == py * dx
        rhs == dy * px
    IN  IF lhs # rhs THEN (IF dx > 0 THEN lhs < rhs ELSE lhs > rhs)
        ELSE shifted /\ px # 0 /\ dy * dx < 0

\* process_edge, lines 175-192
IsBelow(edge_start, edge_end, point, shifted) ==
    /\ XCondition(edge_start, edge_end, point)
    /\ PointBelowLine(edge_start, edge_end, point, shifted)

\* line 172: the polygon closed by its first vertex; edge k runs from
\* vertex k to vertex k + 1
EdgeEnd(vertices, k) == vertices[(k % Len(vertices)) + 1]

\* line 202: intersection_counter = sum(is_below)
IntersectionCounter(point, vertices, shifted) ==
    Cardinality({k \in 1..Len(vertices) :
                   IsBelow(vertices[k], EdgeEnd(vertices, k), point, shifted)})

\* lines 205-212, the branch of a true return_distance: the smooth minimum
\* of the distances to the edges, negative when the count is odd
SignedDistance(point, vertices, shifted) ==
    LET odd == IntersectionCounter(point, vertices, shifted) % 2 = 1
        distances == [k \in 1..Len(vertices) |->
                        DistancePointToLinesegNd(point, vertices[k],
                                                 EdgeEnd(vertices, k))]
    IN  Signed(odd, SmoothMin(distances))

\* lines 213-219, the branch of a false return_distance: -1.0 or 1.0
SideOnly(point, vertices, shifted) ==
    Signed(IntersectionCounter(point, vertices, shifted) % 2 = 1, Length(1, 1))

\* how a call gives return_distance: not at all, or True or False (by
\* position or by keyword)
ReturnDistanceArgs == {"omitted", "True", "False"}

\* the result of a call of the public name: the exception and the value
Returned(value) == [raised |-> "none", neg |-> value.neg, mag |-> value.mag]
RaisedInCall(exception) ==
    [raised |-> exception, neg |-> FALSE, mag |-> ZeroLength]

\* distance_point_to_polygon_ray_casting, lines 146-223.  Line 223 rebinds
\* the name to jax.jit of the function, with no static argument: every
\* argument a call passes is traced, and `if return_distance:` (line 205)
\* raises TracerBoolConversionError on a traced flag, whether True or
\* False.  Only a call that leaves the flag out gets the default, a Python
\* bool, and takes the branch of the signed distance.
DistancePointToPolygonRayCasting(point, vertices, shifted, return_distance) ==
    IF return_distance # "omitted"
    THEN RaisedInCall("TracerBoolConversionError")
    ELSE Returned(SignedDistance(point, vertices, shifted))

\* ------------------------------------------------------------- polygons
\* The polygons of the calls: simple polygons with vertices on the grid,
\* counterclockwise, no straight angle at a vertex, written from their
\* least vertex, and touching the axes x = 0 and y = 0 (the query points
\* reach one unit beyond the grid on every side).
TwiceArea(vertices) ==
    SumSeq([k \in 1..Len(vertices) |->
              vertices[k][1] * EdgeEnd(vertices, k)[2]
              - EdgeEnd(vertices, k)[1] * vertices[k][2]])

\* the turn at the end of edge k: positive to the left
TurnAt(vertices, k) ==
    Cross2(Vec(vertices[k], EdgeEnd(vertices, k)),
           Vec(EdgeEnd(vertices, k), EdgeEnd(vertices, k + 1)))

\* c, on the line through a and b, lies between them
Between(a, b, c) ==
    /\ Min2(a[1], b[1]) <= c[1] /\ c[1] <= Max2(a[1], b[1])
    /\ Min2(a[2], b[2]) <= c[2] /\ c[2] <= Max2(a[2], b[2])

SegmentsMeet(a, b, c, d) ==
    LET o1 == Cross2(Vec(a, b), Vec(a, c))
        o2 == Cross2(Vec(a, b), Vec(a, d))
        o3 == Cross2(Vec(c, d), Vec(c, a))
        o4 == Cross2(Vec(c, d), Vec(c, b))
    IN  \/ o1 * o2 < 0 /\ o3 * o4 < 0
        \/ o1 = 0 /\ Between(a, b, c)
        \/ o2 = 0 /\ Between(a, b, d)
        \/ o3 = 0 /\ Between(c, d, a)
        \/ o4 = 0 /\ Between(c, d, b)

LexLess(p, q) == p[1] < q[1] \/ (p[1] = q[1] /\ p[2] < q[2])

\* the open paths of n vertices that can begin such a polygon: the first
\* vertex is the least and has x = 0, no vertex repeats, no straight angle
RECURSIVE PolygonPaths(_)
PolygonPaths(n) ==
    IF n = 1 THEN {<<p>> : p \in {q \in GridPoints : q[1] = 0}}
    ELSE UNION {{Append(path, q) :
                   q \in {r \in GridPoints :
                            /\ LexLess(path[1], r)
                            /\ \A k \in 1..(n - 1) : path[k] # r
                            /\ n > 2 => Cross2(Vec(path[n - 2], path[n - 1]),
                                               Vec(path[n - 1], r)) # 0}} :
                  path \in PolygonPaths(n - 1)}

IsSimplePolygon(vertices) ==
    LET m == Len(vertices)
    IN  /\ \A k \in 2..m : LexLess(vertices[1], vertices[k])
        /\ \E k \in 1..m : vertices[k][2] = 0
        /\ \A k \in 1..m : TurnAt(vertices, k) # 0
        /\ TwiceArea(vertices) > 0
        /\ \A j, k \in 1..m :
             (j < k /\ k - j > 1 /\ (j + m) - k > 1)
             => ~SegmentsMeet(vertices[j], EdgeEnd(vertices, j),
                              vertices[k], EdgeEnd(vertices, k))

IsConvex(vertices) == \A k \in 1..Len(vertices) : TurnAt(vertices, k) > 0

\* triangles and quadrilaterals
VertexCounts == {3, 4}

Polygons ==
    UNION {{vertices \in PolygonPaths(m) : IsSimplePolygon(vertices)} :
             m \in VertexCounts}

\* the bounding box of a polygon and the points strictly outside it
OutsideBox(point, vertices) ==
    \/ \A k \in 1..Len(vertices) : point.x < vertices[k][1] * point.d
    \/ \A k \in 1..Len(vertices) : point.x > vertices[k][1] * point.d
    \/ \A k \in 1..Len(vertices) : point.y < vertices[k][2] * point.d
    \/ \A k \in 1..Len(vertices) : point.y > vertices[k][2] * point.d

\* the mean of the vertices
Centroid(vertices) ==
    RatPoint(SumSeq([k \in 1..Len(vertices) |-> vertices[k][1]]),
             SumSeq([k \in 1..Len(vertices) |-> vertices[k][2]]),
             Len(vertices))

\* the query points of a polygon: the integer points of the grid widened
\* by one on every side, and the centroid
RayPoints(vertices) ==
    {IntPoint(p) : p \in ((0 - 1)..(GridMax + 1)) \X ((0 - 1)..(GridMax + 1))}
      \cup {Centroid(vertices)}

InitPolygon ==
    /\ CollectionIdle
    /\ grid = GridDefaults
    /\ \E vertices \in Polygons :
         \E point \in RayPoints(vertices) :
           \E shifted \in BOOLEAN, return_distance \in ReturnDistanceArgs :
             call = [op |-> "distance_point_to_polygon_ray_casting",
                     done |-> FALSE, point |-> point, vertices |-> vertices,
                     shifted |-> shifted,
                     return_distance |-> return_distance,
                     out |-> RaisedInCall("none")]

PolygonRayCasting ==
    /\ call.op = "distance_point_to_polygon_ray_casting"
    /\ ~call.done
    /\ call' = [call EXCEPT
         !.done = TRUE,
         !.out = DistancePointToPolygonRayCasting(
                   call.point, call.vertices, call.shifted,
                   call.return_distance)]
    /\ UNCHANGED <<collectionVars, grid>>

\* --------------------------- distance_multi_point_to_multi_polygon_...
\* the parameters of distance_point_to_polygon_ray_casting, lines 146-152
RayCastingParams == <<"point", "vertices", "s", "shift", "return_distance">>

\* Python's binding of a call with positional arguments and keyword
\* arguments to the parameters: a parameter filled by position and named
\* again by keyword, too many positional arguments, or an unknown keyword
\* raise TypeError
BindsOk(params, positional, keywords) ==
    /\ positional <= Len(params)
    /\ \A k \in 1..Min2(positional, Len(params)) : params[k] \notin keywords
    /\ keywords \subseteq SeqToSet(params)

\* lines 57-63 and 70-76: point, boundary_vertices, boundary_normals by
\* position, s and shift by keyword
CallSigned == [positional |-> 3, keywords |-> {"s", "shift"}]
\* lines 95-102, 105-112 and 122-129: return_distance by keyword as well
CallWithFlag ==
    [positional |-> 3, keywords |-> {"s", "shift", "return_distance"}]

\* a call that binds and names return_distance passes a traced flag to
\* line 205
Raises(how) ==
    IF ~BindsOk(RayCastingParams, how.positional, how.keywords)
    THEN "TypeError"
    ELSE IF "return_distance" \in how.keywords
    THEN "TracerBoolConversionError"
    ELSE "none"

\* the value the callee's body gives for the arguments of a call that
\* does not raise; shift = tol = 1e-6 counts in float32
RegionDistance(point, vertices, return_distance) ==
    IF return_distance THEN SignedDistance(point, vertices, TRUE)
    ELSE SideOnly(point, vertices, TRUE)

\* lines 92-113: the regions that contain the point, ctmp <= 0
ContainingRegions(point, boundary_vertices) ==
    {k \in 1..Len(boundary_vertices) :
       RegionDistance(point, boundary_vertices[k], FALSE).neg}

\* lines 116-140: the point is in no region; c = -smooth_max(-distances),
\* region = argmin(distances), the first of the least
NearestRegion(point, boundary_vertices) ==
    LET d == [k \in 1..Len(boundary_vertices) |->
                RegionDistance(point, boundary_vertices[k], TRUE).mag]
    IN  CHOOSE k \in 1..Len(d) :
          /\ \A j \in 1..Len(d) : ~LengthLess(d[j], d[k])
          /\ \A j \in 1..(k - 1) : LengthLess(d[k], d[j])

\* lines 90-140, one turn of the loop over the points: the pair of c[i]
\* and region[i] (regions count from 0)
UnassignedEntry(point, boundary_vertices, return_region) ==
    LET inside == ContainingRegions(point, boundary_vertices)
        first == CHOOSE k \in inside : \A j \in inside : k <= j
        nearest == NearestRegion(point, boundary_vertices)
    IN  IF inside # {}
        THEN [c |-> RegionDistance(point, boundary_vertices[first], TRUE),
              region |-> IF return_region THEN first - 1 ELSE 0]
        ELSE [c |-> Signed(FALSE,
                      SmoothMin([k \in 1..Len(boundary_vertices) |->
                         RegionDistance(point, boundary_vertices[k],
                                        TRUE).mag])),
              region |-> nearest - 1]

\* distance_multi_point_to_multi_polygon_ray_casting, lines 8-143.
\* boundary_vertices is the list of the polygons (the one polygon itself
\* when discrete is False), regions the assignment (<<>> for None or an
\* empty list).  The result: the exception raised, the vector c, and the
\* vector region where one is returned.
DistanceMultiPointToMultiPolygonRayCasting(boundary_vertices, points, discrete, return_region, regions) ==
    LET n_points == Len(points)
        nothing == [raised |-> "none", c |-> <<>>, region |-> <<>>,
                    with_region |-> FALSE]
        raise(how) == [nothing EXCEPT !.raised = Raises(how)]
    IN  IF ~discrete
        THEN IF n_points > 0 /\ Raises(CallSigned) # "none"
             THEN raise(CallSigned)
             ELSE [nothing EXCEPT
                     !.c = [i \in 1..n_points |->
                              RegionDistance(points[i], boundary_vertices[1],
                                             TRUE)]]
        ELSE IF Len(regions) > 0
        THEN IF n_points > 0 /\ Raises(CallSigned) # "none"
             THEN raise(CallSigned)
             ELSE [nothing EXCEPT
                     !.c = [i \in 1..n_points |->
                              RegionDistance(points[i],
                                boundary_vertices[regions[i] + 1], TRUE)]]
        ELSE IF n_points > 0 /\ Raises(CallWithFlag) # "none"
             THEN raise(CallWithFlag)
             ELSE LET entry(i) == UnassignedEntry(points[i], boundary_vertices,
                                                  return_region)
                  IN  [nothing EXCEPT
                         !.c = [i \in 1..n_points |-> entry(i).c],
                         !.region = IF return_region
                                    THEN [i \in 1..n_points |-> entry(i).region]
                                    ELSE <<>>,
                         !.with_region = return_region]

\* the boundary sets of the calls: a square and its copies, each moved on
\* by the same step
Square(x, y, w) == << <<x, y>>, <<x + w, y>>, <<x + w, y + w>>, <<x, y + w>> >>

Squares ==
    {sq \in {Square(x, y, w) :
               x \in 0..GridMax, y \in 0..GridMax, w \in 1..GridMax} :
       sq[3][1] <= GridMax /\ sq[3][2] <= GridMax}

Steps == {<<0, 0>>, <<1, 0>>, <<0, 1>>, <<GridMax, 0>>}

PointSteps == {<<1, 0>>, <<0, 1>>}

MovedBy(vertices, step, times) ==
    [k \in 1..Len(vertices) |->
       << vertices[k][1] + times * step[1], vertices[k][2] + times * step[2] >>]

BoundarySets ==
    {[k \in 1..n |-> MovedBy(sq, step, k - 1)] :
       sq \in Squares, step \in Steps, n \in 1..MaxRegions}

\* the batches of query points: a point and its copies, each moved on by
\* the same step
PointBatches ==
    {[k \in 1..n |-> IntPoint(<< p[1] + (k - 1) * step[1],
                                 p[2] + (k - 1) * step[2] >>)] :
       p \in GridPoints, step \in PointSteps, n \in 0..MaxPoints}

\* the assignments of n points to nreg regions: the regions taken in turn
\* from a first one; <<>> stands for no assignment
Assignments(n, nreg) ==
    {[i \in 1..n |-> (first + i - 1) % nreg] : first \in 0..(nreg - 1)}

NoMultiResult ==
    [raised |-> "none", c |-> <<>>, region |-> <<>>, with_region |-> FALSE]

InitMulti ==
    /\ CollectionIdle
    /\ grid = GridDefaults
    /\ \E boundary_vertices \in BoundarySets, points \in PointBatches :
         \E discrete, return_region, assigned \in BOOLEAN :
           \E regions \in Assignments(IF assigned THEN Len(points) ELSE 0,
                                       Len(boundary_vertices)) :
             /\ ~discrete => Len(boundary_vertices) = 1 /\ ~assigned
             /\ call = [op |-> "distance_multi_point_to_multi_polygon_ray_casting",
                        done |-> FALSE,
                        boundary_vertices |-> boundary_vertices,
                        points |-> points, discrete |-> discrete,
                        return_region |-> return_region,
                        regions |-> regions, out |-> NoMultiResult]

MultiPolygonRayCasting ==
    /\ call.op = "distance_multi_point_to_multi_polygon_ray_casting"
    /\ ~call.done
    /\ call' = [call EXCEPT
         !.done = TRUE,
         !.out = DistanceMultiPointToMultiPolygonRayCasting(
                   call.boundary_vertices, call.points, call.discrete,
                   call.return_region, call.regions)]
    /\ UNCHANGED <<collectionVars, grid>>

NextRay == PolygonRayCasting \/ MultiPolygonRayCasting

InitRay == InitPolygon \/ InitMulti

SpecRay == InitRay /\ [][NextRay]_vars

\* a finished call of distance_point_to_polygon_ray_casting
RayDone ==
    call.op = "distance_point_to_polygon_ray_casting" /\ call.done

\* C11: for a convex polygon the signed distance of the centroid is
\* negative and that of every point outside the bounding box is positive.
C11_ConvexSign ==
    (RayDone /\ IsConvex(call.vertices) /\ call.return_distance = "omitted")
    => /\ call.out.raised = "none"
       /\ call.point = Centroid(call.vertices) => call.out.neg
       /\ OutsideBox(call.point, call.vertices)
            => ~call.out.neg /\ call.out.mag # ZeroLength

\* a finished call of distance_multi_point_to_multi_polygon_ray_casting
MultiDone ==
    call.op = "distance_multi_point_to_multi_polygon_ray_casting" /\ call.done

\* the polygon of point i in the two assigned modes
AssignedPolygon(i) ==
    IF call.discrete THEN call.boundary_vertices[call.regions[i] + 1]
    ELSE call.boundary_vertices[1]

\* C15: with a single polygon, or with discrete regions and an assignment,
\* the call returns one value per point, entry i being the signed distance
\* of point i to its polygon, computed with smoothing s and shift tol.
C15_AssignedDistances ==
    (MultiDone /\ (~call.discrete \/ Len(call.regions) > 0))
    => /\ call.out.raised = "none"
       /\ Len(call.out.c) = Len(call.points)
       /\ \A i \in 1..Len(call.points) :
            call.out.c[i] = SignedDistance(call.points[i],
                                           AssignedPolygon(i), TRUE)

\* the regions, in input order, whose polygon holds point i
Holding(i) ==
    {k \in 1..Len(call.boundary_vertices) :
       SignedDistance(call.points[i], call.boundary_vertices[k], TRUE).neg}

Unassigned == MultiDone /\ call.discrete /\ Len(call.regions) = 0

\* C16: without an assignment the first region, in input order, that
\* contains a point gives its signed distance and, when return_region is
\* set, its recorded region, also when a later region contains it too.
C16_FirstRegionWins ==
    Unassigned
    => \A i \in 1..Len(call.points) :
         Holding(i) # {}
         => LET first == CHOOSE k \in Holding(i) : \A j \in Holding(i) : k <= j
            IN  /\ call.out.raised = "none"
                /\ call.out.c[i] = SignedDistance(
                     call.points[i], call.boundary_vertices[first], TRUE)
                /\ call.return_region => call.out.region[i] = first - 1

\* the distance of point i to region k
ToRegion(i, k) ==
    SignedDistance(call.points[i], call.boundary_vertices[k], TRUE).mag

\* C17: without an assignment a point in no region gets the positive
\* smooth minimum of its distances to the regions, and the region of the
\* least distance, the first of them on ties.
C17_NearestRegion ==
    Unassigned
    => \A i \in 1..Len(call.points) :
         Holding(i) = {}
         => /\ call.out.raised = "none"
            /\ ~call.out.c[i].neg
            /\ \E k \in 1..Len(call.boundary_vertices) :
                 /\ call.out.c[i].mag = ToRegion(i, k)
                 /\ \A j \in 1..Len(call.boundary_vertices) :
                      ~LengthLess(ToRegion(i, j), ToRegion(i, k))
                 /\ \A j \in 1..(k - 1) : LengthLess(ToRegion(i, k), ToRegion(i, j))
                 /\ call.return_region => call.out.region[i] = k - 1

\* --------------------------------------------------------- edge normals
\* lines 292-300 for one edge: the vector (-dy, dx) divided by its norm.
\* A normal is [x, y, n2], the vector (x, y) / sqrt(n2); for an edge of
\* length zero that is (0, 0) / 0, which numpy evaluates to (nan, nan)
\* without raising.
EdgeNormal_Clockwise(edge_start, edge_end) ==
    LET dx == edge_end[1] - edge_start[1]
        dy == edge_end[2] - edge_start[2]
    IN  [x |-> dy, y |-> 0 - dx, n2 |-> dy * dy + dx * dx]
EdgeNormal(edge_start, edge_end) ==
    LET dx == edge_end[1] - edge_start[1]
        dy == edge_end[2] - edge_start[2]
    IN  [x |-> 0 - dy, y |-> dx, n2 |-> dy * dy + dx * dx]

\* single_polygon_normals_calculator, lines 275-302: the rows of the array
\* of normals, returned as the only element of a list
SinglePolygonNormalsCalculator(boundary_vertices) ==
    << [k \in 1..Len(boundary_vertices) |->
          EdgeNormal(boundary_vertices[k], EdgeEnd(boundary_vertices, k))] >>

InitNormals ==
    /\ CollectionIdle
    /\ grid = GridDefaults
    /\ \E boundary_vertices \in Polygons :
         call = [op |-> "single_polygon_normals_calculator", done |-> FALSE,
                 boundary_vertices |-> boundary_vertices, out |-> <<>>]

SinglePolygonNormals ==
    /\ call.op = "single_polygon_normals_calculator"
    /\ ~call.done
    /\ call' = [call EXCEPT
         !.done = TRUE,
         !.out = SinglePolygonNormalsCalculator(call.boundary_vertices)]
    /\ UNCHANGED <<collectionVars, grid>>

NextNormals == SinglePolygonNormals

SpecNormals == InitNormals /\ [][NextNormals]_vars

\* The even-odd rule, for reference: a point off the boundary is inside
\* when the ray straight up from it crosses the boundary an odd number of
\* times, an edge owning its end of lesser x and not the other.
CrossesAbove(edge_start, edge_end, point) ==
    LET lo == IF edge_start[1] < edge_end[1] THEN edge_start ELSE edge_end
        hi == IF edge_start[1] < edge_end[1] THEN edge_end ELSE edge_start
    IN  /\ lo[1] * point.d <= point.x /\ point.x < hi[1] * point.d
        /\ (point.y - lo[2] * point.d) * (hi[1] - lo[1])
             < (hi[2] - lo[2]) * (point.x - lo[1] * point.d)

InsideEvenOdd(point, vertices) ==
    Cardinality({k \in 1..Len(vertices) :
                   CrossesAbove(vertices[k], EdgeEnd(vertices, k), point)}) % 2 = 1

\* the point reached from the middle of an edge by a short step along a
\* vector (x, y): the step is 1/128 of the vector, shorter than the
\* distance of the middle of an edge to any other edge of a polygon of
\* the grid
StepFromEdge(edge_start, edge_end, x, y) ==
    RatPoint(128 * (edge_start[1] + edge_end[1]) + x,
             128 * (edge_start[2] + edge_end[2]) + y, 256)

NormalsDone == call.op = "single_polygon_normals_calculator" /\ call.done

\* C18: for a counterclockwise polygon of m vertices the calculator
\* returns exactly m normals, one per edge, the closing edge included;
\* each is the edge's (dx, dy) turned to (-dy, dx), of unit length, and
\* points into the polygon.
C18_Normals ==
    NormalsDone
    => LET vertices == call.boundary_vertices
           m == Len(vertices)
           normals == call.out[1]
       IN  /\ Len(call.out) = 1
           /\ Len(normals) = m
           /\ \A k \in 1..m :
                LET edge_start == vertices[k]
                    edge_end == IF k = m THEN vertices[1] ELSE vertices[k + 1]
                    normal == normals[k]
                IN  /\ normal.x = 0 - (edge_end[2] - edge_start[2])
                    /\ normal.y = edge_end[1] - edge_start[1]
                    /\ normal.n2 > 0
                    /\ normal.x * normal.x + normal.y * normal.y = normal.n2
                    /\ InsideEvenOdd(StepFromEdge(edge_start, edge_end,
                                                  normal.x, normal.y), vertices)
                    /\ ~InsideEvenOdd(StepFromEdge(edge_start, edge_end,
                                                   0 - normal.x, 0 - normal.y),
                                      vertices)

\* a polygon with a reflex vertex has its normals computed
C18_Witness == NormalsDone /\ ~IsConvex(call.boundary_vertices)

\* ------------------ ard/cost/orbit_wrap.py: generate_orbit_location_from_graph
\* line 86: the deepest recursion level that is handled
RecursionLimit == 10

\* A graph is the list of its edges as networkx reports them: each edge a
\* pair <<u, v>> with u the end that comes first in the graph's node order.
\* Turbines are 0..T-1, substations -R..-1.

\* lines 57-58: sorted by the first node, then the second
EdgeBefore(e, f) == e[1] < f[1] \/ (e[1] = f[1] /\ e[2] < f[2])

RECURSIVE SortEdges(_)
SortEdges(edges) ==
    IF edges = {} THEN <<>>
    ELSE LET least == CHOOSE e \in edges :
                        \A f \in edges : f = e \/ EdgeBefore(e, f)
         IN  <<least>> \o SortEdges(edges \ {least})

\* a work list that is never shortened
RemoveEdge_Kept(list, edge) == list

\* list.remove: the list without its first element equal to edge
RemoveEdge(list, edge) ==
    LET at == CHOOSE k \in 1..Len(list) :
                list[k] = edge /\ \A j \in 1..(k - 1) : list[j] # edge
    IN  SubSeq(list, 1, at - 1) \o SubSeq(list, at + 1, Len(list))

\* the state of one run: the rows of data_orbit, the work list
\* edges_to_process, the counters, and the exception raised
OrbitStart(edges_to_process) ==
    [rows |-> <<>>, edges |-> edges_to_process, idx_string |-> 0,
     order |-> 0, raised |-> "none"]

\* lines 95-103: the row of a turbine; the coordinates are X_turbines and
\* Y_turbines at the target index
TurbineRow(turbine_tgt_index, substation_index, idx_string, order) ==
    [id |-> <<"t", turbine_tgt_index>>,
     substation_id |-> <<"oss", substation_index>>,
     string |-> <<idx_string>>, order |-> <<order>>]

\* lines 133-142: the row of a substation; string and order are None, ""
\* in the table (line 152)
SubstationRow(substation_index) ==
    [id |-> <<"oss", substation_index>>,
     substation_id |-> <<"oss", substation_index>>,
     string |-> <<>>, order |-> <<>>]

\* handle_edge, lines 81-125, and its loop over edges_turbine, lines
\* 113-123 (entry k of the list edges_turbine onward)
RECURSIVE HandleEdge(_, _, _, _, _, _)
RECURSIVE HandleEdgesTurbine(_, _, _, _, _, _, _)
HandleEdge(st, edge, turbine_origination, recursion_level, T, substation_index) ==
    LET turbine_tgt_index ==
            IF edge[1] # turbine_origination THEN edge[1] ELSE edge[2]
        appended == [st EXCEPT !.rows = Append(@,
                        TurbineRow(turbine_tgt_index, substation_index,
                                   st.idx_string, st.order))]
        removed == [appended EXCEPT !.edges = RemoveEdge(@, edge),
                                    !.order = @ + 1]
        edges_turbine == SelectSeq(removed.edges,
                           LAMBDA e : turbine_tgt_index \in {e[1], e[2]})
    IN  IF st.raised # "none" THEN st
        ELSE IF recursion_level > RecursionLimit
        THEN [st EXCEPT !.raised = "RecursionError"]
        ELSE IF turbine_tgt_index >= T \/ turbine_tgt_index < 0 - T
        THEN [st EXCEPT !.raised = "IndexError"]
        ELSE IF edge \notin SeqToSet(st.edges)
        THEN [appended EXCEPT !.raised = "ValueError"]
        ELSE HandleEdgesTurbine(removed, edges_turbine, 1, turbine_tgt_index,
                                recursion_level, T, substation_index)

\* the loop of lines 113-123 without line 115: a branch restarts the order
\* and stays on the string it left
RECURSIVE HandleEdgesTurbine_SameString(_, _, _, _, _, _, _)
HandleEdgesTurbine_SameString(st, edges_turbine, k, turbine_tgt_index, recursion_level, T, substation_index) ==
    IF st.raised # "none" \/ k > Len(edges_turbine) THEN st
    ELSE LET new_string == k - 1
             entered == IF new_string # 0
                        THEN [st EXCEPT !.order = 0]
                        ELSE st
         IN  HandleEdgesTurbine_SameString(
               HandleEdge(entered, edges_turbine[k], turbine_tgt_index,
                          recursion_level + 1, T, substation_index),
               edges_turbine, k + 1, turbine_tgt_index, recursion_level,
               T, substation_index)

HandleEdgesTurbine(st, edges_turbine, k, turbine_tgt_index, recursion_level, T, substation_index) ==
    IF st.raised # "none" \/ k > Len(edges_turbine) THEN st
    ELSE LET new_string == k - 1
             entered == IF new_string # 0
                        THEN [st EXCEPT !.idx_string = @ + 1, !.order = 0]
                        ELSE st
         IN  HandleEdgesTurbine(
               HandleEdge(entered, edges_turbine[k], turbine_tgt_index,
                          recursion_level + 1, T, substation_index),
               edges_turbine, k + 1, turbine_tgt_index, recursion_level,
               T, substation_index)

\* lines 79-147: the loop over the substation edges, from entry k on
RECURSIVE SubstationEdges(_, _, _, _, _)
SubstationEdges(st, edges_inclsub, k, T, R) ==
    IF st.raised # "none" \/ k > Len(edges_inclsub) THEN st
    ELSE LET edge == edges_inclsub[k]
             substation_index == R + (IF edge[1] < 0 THEN edge[1] ELSE edge[2])
             listed == \E j \in 1..Len(st.rows) :
                         st.rows[j].id = <<"oss", substation_index>>
             with_row == IF listed THEN st
                         ELSE [st EXCEPT !.rows =
                                 Append(@, SubstationRow(substation_index))]
             handled == HandleEdge(with_row, edge, substation_index - R, 0,
                                   T, substation_index)
         IN  SubstationEdges(
               IF handled.raised # "none" THEN handled
               ELSE [handled EXCEPT !.order = 0, !.idx_string = @ + 1],
               edges_inclsub, k + 1, T, R)

\* generate_orbit_location_from_graph, lines 15-156, for a graph with T
\* turbine and R substation coordinates
GenerateOrbitLocationFromGraph(graph_edges, T, R) ==
    LET edges_to_process == SortEdges(graph_edges)
        edges_inclsub == SelectSeq(edges_to_process,
                                   LAMBDA e : e[1] < 0 \/ e[2] < 0)
    IN  SubstationEdges(OrbitStart(edges_to_process), edges_inclsub, 1, T, R)

\* the node orders of the graphs: networkx reports an edge from its end
\* that was added to the graph first
NodeOrders == {"ascending", "descending", "turbines_first"}

Rank(node, node_order) ==
    IF node_order = "ascending" THEN node
    ELSE IF node_order = "descending" THEN 0 - node
    ELSE IF node >= 0 THEN node - MaxString - MaxOrbitNodes ELSE node

Oriented(pair, node_order) ==
    IF Rank(pair[1], node_order) < Rank(pair[2], node_order)
    THEN pair ELSE <<pair[2], pair[1]>>

\* the pairs of distinct nodes of a farm
NodePairs(T, R) ==
    {pair \in ((0 - R)..(T - 1)) \X ((0 - R)..(T - 1)) : pair[1] < pair[2]}

\* one string: substation -1, then turbines 0, 1, ..., n - 1 in a row
StringPairs(n) == {<<k - 1, k>> : k \in 0..(n - 1)}

NoOrbitResult == OrbitStart(<<>>)

InitOrbit ==
    /\ CollectionIdle
    /\ grid = GridDefaults
    /\ \E node_order \in NodeOrders :
         \/ \E R \in 1..2 : \E T \in 1..(MaxOrbitNodes - R) :
              \E pairs \in SUBSET NodePairs(T, R) :
                call = [op |-> "generate_orbit_location_from_graph",
                        done |-> FALSE, T |-> T, R |-> R,
                        graph |-> {Oriented(pair, node_order) : pair \in pairs},
                        out |-> NoOrbitResult]
         \/ \E n \in 1..MaxString :
              call = [op |-> "generate_orbit_location_from_graph",
                      done |-> FALSE, T |-> n, R |-> 1,
                      graph |-> {Oriented(pair, node_order) :
                                   pair \in StringPairs(n)},
                      out |-> NoOrbitResult]

GenerateOrbitLocation ==
    /\ call.op = "generate_orbit_location_from_graph"
    /\ ~call.done
    /\ call' = [call EXCEPT
         !.done = TRUE,
         !.out = GenerateOrbitLocationFromGraph(call.graph, call.T, call.R)]
    /\ UNCHANGED <<collectionVars, grid>>

NextOrbit == GenerateOrbitLocation

SpecOrbit == InitOrbit /\ [][NextOrbit]_vars

OrbitDone == call.op = "generate_orbit_location_from_graph" /\ call.done

Linked(u, v) == <<u, v>> \in call.graph \/ <<v, u>> \in call.graph

\* some turbines of the graph lie on a cycle of turbines: a set of three
\* or more turbines, each linked to two others of the set
TurbineCycle ==
    \E ring \in SUBSET (0..(call.T - 1)) :
      /\ Cardinality(ring) >= 3
      /\ \A u \in ring : Cardinality({v \in ring : Linked(u, v)}) >= 2

\* C19: the run ends with the table or with RecursionError, never with
\* another exception, and a graph with a cycle among turbines ends in
\* RecursionError.
C19_TableOrRecursionError ==
    OrbitDone
    => /\ call.out.raised \in {"none", "RecursionError"}
       /\ TurbineCycle => call.out.raised = "RecursionError"

\* ----------------------- ard/geomorphology.py: GeomorphologyGridData
\* A mesh is kept as its shape, the sequence of its extents.  The shapes
\* of the meshes handed in: the vector (1,), and the tables of r rows and
\* c columns, r <= c.
Shapes ==
    {<<1>>} \cup {mesh \in (1..MaxExtent) \X (1..MaxExtent) : mesh[1] <= mesh[2]}

\* numpy.ndarray.size: the product of the extents
RECURSIVE Size(_)
Size(mesh) == IF mesh = <<>> THEN 1 ELSE Head(mesh) * Size(Tail(mesh))

\* lines 32-35: the third assertion of check_valid
MaterialOk_SameShapeOnly(g) == g.x_mesh = g.material_mesh
MaterialOk(g) == g.x_mesh = g.material_mesh \/ Size(g.material_mesh) = 1

\* check_valid, lines 24-37: the exception raised
CheckValid(g) ==
    IF g.x_mesh # g.y_mesh THEN "AssertionError"
    ELSE IF g.x_mesh # g.depth_mesh THEN "AssertionError"
    ELSE IF ~MaterialOk(g) THEN "AssertionError"
    ELSE "none"

\* the arguments of set_values: meshes of one shape, at most one of them
\* of another; None is <<>> (no mesh has that shape)
None == <<>>

SetValuesArgs ==
    {[x_mesh_in |-> IF odd = "x" THEN other ELSE base,
      y_mesh_in |-> IF odd = "y" THEN other ELSE base,
      depth_mesh_in |-> IF odd = "depth" THEN other ELSE base,
      material_mesh_in |-> IF ~given THEN None
                           ELSE IF odd = "material" THEN other ELSE base] :
       base \in Shapes, other \in Shapes,
       odd \in {"none", "x", "y", "depth", "material"}, given \in BOOLEAN}

InitGrid ==
    /\ CollectionIdle
    /\ call = NoCall
    /\ grid = GridDefaults

\* set_values, lines 53-82: the values are stored, then checked
SetValues ==
    /\ \E args \in SetValuesArgs :
         LET stored == [grid EXCEPT
                 !.x_mesh = args.x_mesh_in,
                 !.y_mesh = args.y_mesh_in,
                 !.depth_mesh = args.depth_mesh_in,
                 !.material_mesh = IF args.material_mesh_in # None
                                   THEN args.material_mesh_in ELSE @]
         IN  grid' = [stored EXCEPT !.op = "set_values",
                                    !.raised = CheckValid(stored),
                                    !.returned = <<>>]
    /\ UNCHANGED <<collectionVars, call>>

\* a direct change of one attribute of the object
SetAttribute ==
    /\ \E attribute \in {"x_mesh", "y_mesh", "depth_mesh", "material_mesh"},
          mesh \in Shapes :
         grid' = [grid EXCEPT ![attribute] = mesh, !.op = "setattr",
                              !.raised = "none", !.returned = <<>>]
    /\ UNCHANGED <<collectionVars, call>>

\* a call of check_valid, lines 24-37
CheckValidCall ==
    /\ grid' = [grid EXCEPT
         !.op = "check_valid",
         !.raised = CheckValid(grid),
         !.returned = IF CheckValid(grid) = "none" THEN <<TRUE>> ELSE <<>>]
    /\ UNCHANGED <<collectionVars, call>>

\* a call of get_shape, lines 39-51
GetShape ==
    /\ grid' = [grid EXCEPT
         !.op = "get_shape",
         !.raised = CheckValid(grid),
         !.returned = IF CheckValid(grid) = "none"
                      THEN <<grid.depth_mesh>> ELSE <<>>]
    /\ UNCHANGED <<collectionVars, call>>

\* get_depth_data, lines 84-86: the depth mesh, unchecked
GetDepthData ==
    /\ grid' = [grid EXCEPT !.op = "get_depth_data", !.raised = "none",
                            !.returned = <<grid.depth_mesh>>]
    /\ UNCHANGED <<collectionVars, call>>

\* evaluate_depth, lines 88-118: both branches raise
EvaluateDepth ==
    /\ grid' = [grid EXCEPT !.op = "evaluate_depth",
                            !.raised = "NotImplementedError",
                            !.returned = <<>>]
    /\ UNCHANGED <<collectionVars, call>>

\* A MoorPy bathymetry file, as load_moorpy_bathymetry reads it: whether
\* line 0 is the header, whether lines 1 and 2 begin with nGridX and
\* nGridY, the two numbers they give, the number of x coordinates on line
\* 3, and for every later line that is not blank the number of depths
\* that follow its y coordinate.  The rows are all of the right length,
\* one too few, as many as declared or one too many, or as many as
\* declared with one of them too long.
MoorpyFiles ==
    UNION {{[header |-> header, declared |-> declared,
             nGridX |-> nGridX, nGridY |-> nGridY,
             x_coord_tgt |-> x_coord_tgt, rows |-> rows] :
              header \in BOOLEAN, declared \in BOOLEAN,
              x_coord_tgt \in {nGridX, nGridX + 1},
              rows \in {[k \in 1..n |-> nGridX] :
                          n \in (nGridY - 1)..(nGridY + 1)}
                       \cup {[k \in 1..nGridY |->
                                IF k = long THEN nGridX + 1 ELSE nGridX] :
                               long \in 1..nGridY}} :
            nGridX \in 1..MaxExtent, nGridY \in 1..MaxExtent}

\* lines 175-188, from data row k on: the length of a row is asserted
\* (line 185), then y_coord[idx_y] is written (line 186), out of range
\* when the file has more rows than nGridY
RECURSIVE ReadRows(_, _)
ReadRows(file, k) ==
    IF k > Len(file.rows) THEN "none"
    ELSE IF file.rows[k] # file.nGridX THEN "AssertionError"
    ELSE IF k > file.nGridY THEN "IndexError"
    ELSE ReadRows(file, k + 1)

\* lines 148-189: the exception the reading of the file ends with
ReadMoorpy(file) ==
    IF ~file.header THEN "AssertionError"
    ELSE IF ~file.declared THEN "AssertionError"
    ELSE IF file.x_coord_tgt # file.nGridX THEN "AssertionError"
    ELSE IF ReadRows(file, 1) # "none" THEN ReadRows(file, 1)
    ELSE IF Len(file.rows) # file.nGridY THEN "AssertionError"
    ELSE "none"

\* BathymetryGridData.load_moorpy_bathymetry, lines 130-195: a file that
\* does not read leaves the object as it was; one that reads gives x, y
\* and depth meshes of shape (nGridX, nGridY), stored before check_valid
\* and with the material mesh left alone
LoadMoorpyBathymetry ==
    /\ \E file \in MoorpyFiles :
         LET stored == [grid EXCEPT
                 !.x_mesh = <<file.nGridX, file.nGridY>>,
                 !.y_mesh = <<file.nGridX, file.nGridY>>,
                 !.depth_mesh = <<file.nGridX, file.nGridY>>]
         IN  grid' = IF ReadMoorpy(file) # "none"
                     THEN [grid EXCEPT !.op = "load_moorpy_bathymetry",
                                       !.raised = ReadMoorpy(file),
                                       !.returned = <<>>]
                     ELSE [stored EXCEPT !.op = "load_moorpy_bathymetry",
                                         !.raised = CheckValid(stored),
                                         !.returned = <<>>]
    /\ UNCHANGED <<collectionVars, call>>

NextGrid ==
    \/ SetValues
    \/ SetAttribute
    \/ CheckValidCall
    \/ GetShape
    \/ GetDepthData
    \/ EvaluateDepth
    \/ LoadMoorpyBathymetry

SpecGrid == InitGrid /\ [][NextGrid]_vars

\* the meshes of the object do not fit: x, y and depth are not all of one
\* shape, or the material mesh has neither that shape nor size 1
Misfit ==
    \/ ~(grid.x_mesh = grid.y_mesh /\ grid.y_mesh = grid.depth_mesh)
    \/ (grid.material_mesh # grid.depth_mesh
        /\ \E k \in 1..Len(grid.material_mesh) : grid.material_mesh[k] # 1)

\* C20: set_values and check_valid raise AssertionError whenever the
\* meshes do not fit, be it from the arguments of set_values or from a
\* later direct change; otherwise check_valid returns True and get_shape
\* returns the shape of the depth mesh.
C20_ShapeCheck ==
    /\ grid.op \in {"set_values", "check_valid"}
         => (grid.raised = "AssertionError" <=> Misfit)
    /\ (grid.op = "check_valid" /\ ~Misfit)
         => grid.raised = "none" /\ grid.returned = <<TRUE>>
    /\ (grid.op = "get_shape" /\ ~Misfit)
         => grid.raised = "none" /\ grid.returned = <<grid.depth_mesh>>

\* set_values took x, y and depth of one shape and a material mesh of one
\* cell with it, and did not raise
C20_Witness ==
    /\ grid.op = "set_values"
    /\ grid.raised = "none"
    /\ grid.x_mesh = <<2, 2>>
    /\ grid.material_mesh = <<1, 1>>

\* ------------------------------- ard/cost/wisdem_wrap.py: set_values
\* A variable of the problem is [sub, core, promoted]: its absolute name
\* is sub.core; its promoted name is sub.core when it is not promoted,
\* core when it is promoted to the model, and an alias of core when it is
\* promoted under another name.  A name is the sequence of its segments.
Subsystems == {"a", "b"}

CoreNames == {"x", "y"}

Promotions == {"no", "yes", "renamed"}

Alias(core) == IF core = "x" THEN "x_in" ELSE "y_in"

PromName(var) ==
    IF var.promoted = "no" THEN <<var.sub, var.core>>
    ELSE IF var.promoted = "yes" THEN <<var.core>>
    ELSE <<Alias(var.core)>>

\* prom_name.split(".")[-1]
LastSegment(name) == name[Len(name)]

\* lines 661-664: the dict from the last segment of each absolute name to
\* the promoted name; a key met again takes the later variable's value
PromotionMap(listed) ==
    [core \in {listed[k].core : k \in 1..Len(listed)} |->
       PromName(listed[CHOOSE k \in 1..Len(listed) :
                  /\ listed[k].core = core
                  /\ \A j \in (k + 1)..Len(listed) : listed[j].core # core])]

\* lines 667-676: the promoted names that receive a value: those of the
\* dict whose last segment is a key of the dict and of variable_map (the
\* KeyError of a missing key is swallowed by the bare except)
NamesSet(listed, variable_map) ==
    LET promotion_map == PromotionMap(listed)
    IN  {promotion_map[full_name] : full_name \in
           {key \in DOMAIN promotion_map :
              /\ LastSegment(promotion_map[key]) \in DOMAIN promotion_map
              /\ LastSegment(promotion_map[key]) \in DOMAIN variable_map}}

\* set_values, lines 640-676: the values of the problem afterwards, by
\* promoted name
WisdemSetValues(listed, variable_map, values) ==
    [name \in DOMAIN values |->
       IF name \in NamesSet(listed, variable_map)
       THEN variable_map[LastSegment(name)] ELSE values[name]]

\* the listings of a problem: 1..MaxVars variables of distinct absolute
\* names, in the order of list_vars
RECURSIVE Listings(_)
Listings(n) ==
    IF n = 0 THEN {<<>>}
    ELSE UNION {{Append(listed, [sub |-> sub, core |-> core,
                                 promoted |-> promoted]) :
                   sub \in {q \in Subsystems :
                              \A k \in 1..Len(listed) :
                                ~(listed[k].sub = q /\ listed[k].core = core)},
                   promoted \in Promotions} :
                  listed \in {l \in Listings(n - 1) : Len(l) = n - 1},
                  core \in CoreNames}
          \cup Listings(n - 1)

\* the maps handed in: some core names, each with a value 1 or 2
VariableMaps == UNION {[keys -> 1..2] : keys \in SUBSET CoreNames}

InitWisdem ==
    /\ CollectionIdle
    /\ grid = GridDefaults
    /\ \E listed \in Listings(MaxVars) \ {<<>>}, variable_map \in VariableMaps :
         call = [op |-> "set_values", done |-> FALSE, listed |-> listed,
                 variable_map |-> variable_map,
                 values |-> [name \in {PromName(listed[k]) :
                                         k \in 1..Len(listed)} |-> 0],
                 raised |-> "none"]

SetValuesOfProblem ==
    /\ call.op = "set_values"
    /\ ~call.done
    /\ call' = [call EXCEPT
         !.done = TRUE,
         !.values = WisdemSetValues(call.listed, call.variable_map, @)]
    /\ UNCHANGED <<collectionVars, grid>>

NextWisdem == SetValuesOfProblem

SpecWisdem == InitWisdem /\ [][NextWisdem]_vars

WisdemDone == call.op = "set_values" /\ call.done

\* C21: after set_values every variable whose core name is a key of
\* variable_map holds the mapped value, also when several variables of
\* different subsystems share the core name; every other variable keeps
\* its value; no exception reaches the caller.
C21_EveryVariableSet ==
    WisdemDone
    => /\ call.raised = "none"
       /\ \A k \in 1..Len(call.listed) :
            LET var == call.listed[k]
            IN  call.values[PromName(var)] =
                  IF var.core \in DOMAIN call.variable_map
                  THEN call.variable_map[var.core] ELSE 0

\* the query point of a ray-casting call lies on the polygon's boundary
OnBoundary ==
    \E k \in 1..Len(call.vertices) :
      DistancePointToLinesegNd(call.point, call.vertices[k],
                               EdgeEnd(call.vertices, k)) = ZeroLength

\* C22: for a simple polygon and a query point off its boundary the sign
\* returned is negative exactly when the point is inside under the
\* even-odd rule, also when the point's x is that of a vertex and when
\* the polygon has edges of constant x.
C22_EvenOddSign ==
    (RayDone /\ ~OnBoundary /\ call.return_distance = "omitted")
    => /\ call.out.raised = "none"
       /\ call.out.neg <=> InsideEvenOdd(call.point, call.vertices)

PointSegDone == call.op = "distance_point_to_lineseg_nd" /\ call.done

\* the vector from the segment's start to the query point, times point.d
FromStart == << call.point.x - call.a[1] * call.point.d,
                call.point.y - call.a[2] * call.point.d >>

\* the same from the segment's end
FromEnd == << call.point.x - call.b[1] * call.point.d,
              call.point.y - call.b[2] * call.point.d >>

Dot(u, v) == u[1] * v[1] + u[2] * v[2]

\* the length out equals sqrt(n / d)
IsLength(out, n, d) == out.n * d = n * out.d

\* C23: distance_point_to_lineseg_nd returns the distance to the closest
\* point of the segment: to the start when the projection parameter is
\* below 0, to the end when it is above 1, to start + projection * vector
\* (the foot of the perpendicular, on the segment) otherwise; for a
\* segment that is one point, the distance to that point.  No point of
\* the segment is closer.
C23_ClosestPoint ==
    PointSegDone
    => LET v == Vec(call.a, call.b)
           w == FromStart
           pd == call.point.d
           out == call.out.distance
       IN  /\ IF v = <<0, 0>> THEN IsLength(out, Dot(w, w), pd * pd)
              ELSE IF Dot(w, v) < 0 THEN IsLength(out, Dot(w, w), pd * pd)
              ELSE IF Dot(w, v) > pd * Dot(v, v)
              THEN IsLength(out, Dot(FromEnd, FromEnd), pd * pd)
              ELSE IsLength(out, Dot(w, w) * Dot(v, v) - Dot(w, v) * Dot(w, v),
                            Dot(v, v) * pd * pd)
           /\ \A q \in QueryPoints :
                (OnSegment(q, call.a, call.b) /\ (v = <<0, 0>> => q = IntPoint(call.a)))
                => ~LengthLess(SmoothNorm(call.point.x * q.d - q.x * pd,
                                          call.point.y * q.d - q.y * pd,
                                          pd * q.d), out)

\* a point off the segment's line whose projection parameter is above 1
\* was measured
C23_Witness ==
    /\ PointSegDone
    /\ call.a # call.b
    /\ Dot(FromStart, Vec(call.a, call.b))
         > call.point.d * Dot(Vec(call.a, call.b), Vec(call.a, call.b))
    /\ Cross2(FromStart, Vec(call.a, call.b)) # 0
    /\ call.point.d > 1

\* ------------------------------------------------ degenerate geometry
\* line 183: the divisor of the slope, dx + shift, as the pair of dx and
\* the number of shifts added; shift is positive and below every
\* non-zero |dx| of integer vertices
SlopeDivisor(edge_start, edge_end) ==
    [whole |-> edge_end[1] - edge_start[1], shifts |-> 1]

\* a polygon with vertex k given twice in a row: edge k has length zero
Doubled(vertices, k) ==
    SubSeq(vertices, 1, k) \o <<vertices[k]>>
      \o SubSeq(vertices, k + 1, Len(vertices))

HasConstantXEdge(vertices) ==
    \E k \in 1..Len(vertices) : vertices[k][1] = EdgeEnd(vertices, k)[1]

\* calls on degenerate input: a polygon with an edge of constant x for the
\* ray casting, a polygon with an edge of length zero (inside the list, or
\* the closing edge when the first vertex is given again at the end) for
\* the normals, a segment of length zero for the point-to-segment distance
InitGuards ==
    /\ CollectionIdle
    /\ grid = GridDefaults
    /\ \/ \E vertices \in {p \in Polygons : HasConstantXEdge(p)} :
            \E point \in RayPoints(vertices) :
              \E shifted \in BOOLEAN :
                call = [op |-> "distance_point_to_polygon_ray_casting",
                        done |-> FALSE, point |-> point, vertices |-> vertices,
                        shifted |-> shifted, return_distance |-> "omitted",
                        out |-> RaisedInCall("none")]
       \/ \E vertices \in Polygons :
            \E boundary_vertices \in
                 {Doubled(vertices, k) : k \in 1..Len(vertices)}
                   \cup {Append(vertices, vertices[1])} :
              call = [op |-> "single_polygon_normals_calculator",
                      done |-> FALSE,
                      boundary_vertices |-> boundary_vertices, out |-> <<>>]
       \/ \E point \in QueryPoints, a \in GridPoints :
            /\ InBox(point)
            /\ call = [op |-> "distance_point_to_lineseg_nd", done |-> FALSE,
                       point |-> point, a |-> a, b |-> a, c |-> a, d |-> a,
                       out |-> NoDistance]

NextGuards == PolygonRayCasting \/ SinglePolygonNormals \/ PointToLineseg

SpecGuards == InitGuards /\ [][NextGuards]_vars

\* C24: no operation divides by zero: not the ray-cast slope for an edge
\* of constant x, not the normalization of the normal of an edge of
\* length zero, not the projection for a segment of length zero; no
\* result is NaN.
C24_NoZeroDivisor ==
    /\ RayDone
         => \A k \in 1..Len(call.vertices) :
              LET divisor == SlopeDivisor(call.vertices[k],
                                          EdgeEnd(call.vertices, k))
              IN  divisor.whole # 0 \/ divisor.shifts # 0
    /\ NormalsDone
         => \A k \in 1..Len(call.out[1]) : call.out[1][k].n2 # 0
    /\ PointSegDone => call.out.distance.d # 0

\* the coordinates of the two ends of edge k of the stored graph
EndA(k) == graph.VertexC[CoordRow(graph.edges[k].a)]
EndB(k) == graph.VertexC[CoordRow(graph.edges[k].b)]

\* the ends of edge k of the stored graph are coincident or nearly so:
\* no further apart than 1e-8, the tolerance of np.isclose
NearlyCoincident(k) ==
    LET dx == EndA(k)[1] - EndB(k)[1]
        dy == EndA(k)[2] - EndB(k)[2]
    IN  dx * dx + dy * dy <= Atol(graph.unit) * Atol(graph.unit)

\* edge k's part of row r of a sum over edges, where k adds v: added where
\* r is end a, subtracted where r is end b
AtRow(k, r, v) ==
    (IF CoordRow(graph.edges[k].a) = r THEN v ELSE 0)
    - (IF CoordRow(graph.edges[k].b) = r THEN v ELSE 0)

\* the sum at row r, over the edges of the stored graph whose ends are not
\* nearly coincident, of the unit vector from end b to end a, component c
ProperSum(r, c) ==
    SumSeq([k \in 1..Len(graph.edges) |->
              IF NearlyCoincident(k) THEN 0
              ELSE AtRow(k, r, ((EndA(k)[c] - EndB(k)[c]) * GradUnit)
                                 \div Dist(EndA(k), EndB(k)))])

\* the sum at row r, over the edges whose ends are nearly coincident, of
\* the difference of the ends, component c, in the unit of the coordinates
NearSum(r, c) ==
    SumSeq([k \in 1..Len(graph.edges) |->
              IF NearlyCoincident(k)
              THEN AtRow(k, r, EndA(k)[c] - EndB(k)[c]) ELSE 0])

\* the rows of the Jacobian are the sums of the unit vectors of the edges
\* whose ends are not nearly coincident
ProperEdgesDivided ==
    /\ \A i \in Turbines(graph.T) :
         /\ J.x_turbines[i] = ProperSum(i, 1)
         /\ J.y_turbines[i] = ProperSum(i, 2)
    /\ \A k \in 0..(graph.R - 1) :
         LET r == NumRows(graph.VertexC) - graph.R + k
         IN  /\ J.x_substations[k] = ProperSum(r, 1)
             /\ J.y_substations[k] = ProperSum(r, 2)

\* C25, as stated: an edge whose ends have coincident or nearly coincident
\* coordinates adds a zero vector to the gradient rows of both ends, and
\* the other edges count as without it: every row of the Jacobian is the
\* sum of the unit vectors of the other edges and nothing else.
C25_NearZeroEdgeAddsZero ==
    (lastOp = "compute_partials" /\ status = "ok") =>
        /\ ProperEdgesDivided
        /\ \A i \in Turbines(graph.T) :
             /\ J.undivided.x_turbines[i] = 0
             /\ J.undivided.y_turbines[i] = 0
        /\ \A k \in 0..(graph.R - 1) :
             /\ J.undivided.x_substations[k] = 0
             /\ J.undivided.y_substations[k] = 0

\* C25, amended: the norm of an edge whose ends are no further apart than
\* 1e-8 is replaced by 1, so no such length is a divisor, and the edge
\* adds the difference of its ends undivided: +(a - b) at the row of end
\* a and -(a - b) at the row of end b, which is zero where the ends
\* coincide and no longer than 1e-8 otherwise.  Every other edge adds its
\* unit vector as without it.
C25_NearZeroEdgeUndivided ==
    (lastOp = "compute_partials" /\ status = "ok") =>
        /\ ProperEdgesDivided
        /\ \A i \in Turbines(graph.T) :
             /\ J.undivided.x_turbines[i] = NearSum(i, 1)
             /\ J.undivided.y_turbines[i] = NearSum(i, 2)
        /\ \A k \in 0..(graph.R - 1) :
             LET r == NumRows(graph.VertexC) - graph.R + k
             IN  /\ J.undivided.x_substations[k] = NearSum(r, 1)
                 /\ J.undivided.y_substations[k] = NearSum(r, 2)

\* a Jacobian of a graph with an edge of length 1e-9 at a turbine, which
\* has another edge longer than the tolerance: the turbine's gradient has
\* a unit part and an undivided part that are not zero
C25_Witness ==
    /\ lastOp = "compute_partials"
    /\ status = "ok"
    /\ \E k \in 1..Len(graph.edges), m \in 1..Len(graph.edges) :
         /\ NearlyCoincident(k)
         /\ EndA(k) # EndB(k)
         /\ ~NearlyCoincident(m)
         /\ \E i \in Turbines(graph.T) :
              /\ i \in {CoordRow(graph.edges[k].a), CoordRow(graph.edges[k].b)}
              /\ i \in {CoordRow(graph.edges[m].a), CoordRow(graph.edges[m].b)}
              /\ <<J.x_turbines[i], J.y_turbines[i]>> # <<0, 0>>
              /\ <<J.undivided.x_turbines[i], J.undivided.y_turbines[i]>>
                   # <<0, 0>>

\* the Jacobian blocks of a graph G, as compute_partials builds them
JacobianOf(G) == Blocks(G, Gradients(G))

\* C26: compute_partials reads no inputs: the Jacobian it returns is that of
\* the graph of the most recent compute call, it leaves the stored graph as
\* it was, and before the first compute it cannot be evaluated.  Stated
\* for a compute_partials that follows the compute of a solved graph.
C26_ReflectsLastCompute ==
    [][ lastOp' = "compute_partials" =>
          /\ graph' = graph
          /\ ~graph.has => (status' = "AttributeError" /\ J' = J)
          /\ (lastOp = "compute" /\ Solved(shape) /\ status' = "ok")
               => J' = JacobianOf(res.G)
      ]_vars

\* C27: compute is not atomic on failure: when the length assertion fails,
\* self.graph and the outputs terse_links, length_cables, load_cables and
\* max_load_cables hold the values of the failing evaluation, and only
\* total_length_cables keeps the value it had.
C27_NotAtomic ==
    [][ (lastOp' = "compute" /\ status' = "AssertionError") =>
          /\ graph' = SolverResult(shape').G
          /\ terse_links' = locals'.terse_links
          /\ length_cables' = locals'.length_cables
          /\ load_cables' = locals'.load_cables
          /\ max_load_cables' = SolverResult(shape').max_load
          /\ total_length_cables' = total_length_cables
      ]_vars

\* an evaluation failed the assertion after an earlier one had returned:
\* the total is the earlier one's, while self.graph and the cable lengths
\* are the failing one's
C27_Witness ==
    /\ lastOp = "compute"
    /\ status = "AssertionError"
    /\ graph = res.G
    /\ length_cables = locals.length_cables
    /\ total_length_cables > 0
    /\ total_length_cables # GSize(graph.edges)

\* ------------------------------------------- forests given to the ORBIT table
\* the nodes within n links of the nodes of the set near, in the graph of
\* the call
RECURSIVE Ball(_, _)
Ball(near, n) ==
    IF n = 0 THEN near
    ELSE Ball(near \cup {e[1] : e \in {f \in call.graph : f[2] \in near}}
                   \cup {e[2] : e \in {f \in call.graph : f[1] \in near}},
              n - 1)

OrbitTurbines == 0..(call.T - 1)
OrbitSubstations == (0 - call.R)..(-1)

\* the substations that have an edge
WiredSubstations ==
    {s \in OrbitSubstations : \E e \in call.graph : s \in {e[1], e[2]}}

\* the graph is a forest and every tree of it holds exactly one substation:
\* every turbine is joined to exactly one substation, no substation to
\* another, and there are as many edges as turbines
OrbitForest ==
    /\ Cardinality(call.graph) = call.T
    /\ \A t \in OrbitTurbines :
         Cardinality({s \in OrbitSubstations :
                        t \in Ball({s}, call.T + call.R)}) = 1
    /\ \A s \in OrbitSubstations :
         Ball({s}, call.T + call.R) \cap OrbitSubstations = {s}

\* no turbine is more than 11 links from a substation: the deepest call
\* of handle_edge is at recursion level 10
WithinReach ==
    OrbitTurbines \subseteq Ball(OrbitSubstations, RecursionLimit + 1)

RowsOf(id) == {j \in 1..Len(call.out.rows) : call.out.rows[j].id = id}

\* C28: for a forest whose trees hold one substation each and whose
\* turbines are at most 11 links from it, the table has exactly one row
\* for every turbine and one for every substation that has an edge, and
\* every edge is removed from the work list exactly once: the list ends
\* empty and no removal fails.
C28_OneRowPerNode ==
    (OrbitDone /\ OrbitForest /\ WithinReach) =>
        /\ call.out.raised = "none"
        /\ \A t \in OrbitTurbines : Cardinality(RowsOf(<<"t", t>>)) = 1
        /\ \A s \in OrbitSubstations :
             Cardinality(RowsOf(<<"oss", call.R + s>>))
               = (IF s \in WiredSubstations THEN 1 ELSE 0)
        /\ Len(call.out.rows) = call.T + Cardinality(WiredSubstations)
        /\ call.out.edges = <<>>

\* a forest of two trees, or a tree with a branch, was tabulated
C28_Witness ==
    /\ OrbitDone
    /\ OrbitForest
    /\ WithinReach
    /\ call.out.raised = "none"
    /\ \/ Cardinality(WiredSubstations) = 2
       \/ \E t \in OrbitTurbines : Cardinality(Ball({t}, 1)) >= 4

\* the number of links between node t and the nearest substation
Depth(t) ==
    CHOOSE n \in 0..(call.T + call.R) :
        /\ t \in Ball(OrbitSubstations, n)
        /\ n > 0 => t \notin Ball(OrbitSubstations, n - 1)

\* in a forest: the neighbour of turbine t on its way to the substation
ParentOf(t) == CHOOSE p \in Ball({t}, 1) : Depth(p) = Depth(t) - 1

OtherEnd(e, p) == IF e[1] = p THEN e[2] ELSE e[1]

\* the links from p away from the substation, in the order of the work list
ChildEdges(p) ==
    SelectSeq(SortEdges(call.graph),
              LAMBDA e : p \in {e[1], e[2]}
                         /\ Depth(OtherEnd(e, p)) = Depth(p) + 1)

\* t hangs below a turbine and is the first of its children in the work list
IsFirstChild(t) ==
    /\ ParentOf(t) >= 0
    /\ OtherEnd(ChildEdges(ParentOf(t))[1], ParentOf(t)) = t

RowOfTurbine(t) == CHOOSE j \in 1..Len(call.out.rows) :
                       call.out.rows[j].id = <<"t", t>>
StringOf(t) == call.out.rows[RowOfTurbine(t)].string[1]
OrderOf(t) == call.out.rows[RowOfTurbine(t)].order[1]

\* C29: in the table of a tree (of every tree of a forest with one
\* substation per tree) no two turbines share string and order; the orders
\* of a string are 0, 1, 2, ... without gaps; the first child of a turbine
\* continues its parent's string at the next order; every other turbine (a
\* further child, or the turbine of a substation edge) starts at order 0 a
\* string number that no earlier row uses.
C29_StringsAndOrders ==
    (OrbitDone /\ OrbitForest /\ WithinReach) =>
        /\ \A t, u \in OrbitTurbines :
             t # u => <<StringOf(t), OrderOf(t)>> # <<StringOf(u), OrderOf(u)>>
        /\ \A t \in OrbitTurbines :
             LET mates == {u \in OrbitTurbines : StringOf(u) = StringOf(t)}
             IN  {OrderOf(u) : u \in mates} = 0..(Cardinality(mates) - 1)
        /\ \A t \in OrbitTurbines :
             IF IsFirstChild(t)
             THEN /\ StringOf(t) = StringOf(ParentOf(t))
                  /\ OrderOf(t) = OrderOf(ParentOf(t)) + 1
             ELSE /\ OrderOf(t) = 0
                  /\ \A j \in 1..(RowOfTurbine(t) - 1) :
                       call.out.rows[j].string # <<StringOf(t)>>

\* a tree with a branch below a turbine was tabulated: a first child on
\* its parent's string and a further child on a string of its own
C29_Witness ==
    /\ OrbitDone
    /\ OrbitForest
    /\ WithinReach
    /\ \E t, u \in OrbitTurbines :
         /\ t # u
         /\ ParentOf(t) >= 0
         /\ ParentOf(u) = ParentOf(t)
         /\ IsFirstChild(t)
         /\ StringOf(u) # StringOf(t)

\* the length case of edge k of S, by the tests of lines 143 and 145
LengthCase(k) ==
    IF EdgeU(k) >= 0 THEN "link"
    ELSE IF EdgeV(k) \in SeqToSet(Adj(res.G.edges, EdgeU(k))) THEN "direct"
    ELSE "detour"

\* C30: in the pass over a solved graph every edge of S is given its length
\* once, by its case: an edge between turbines (smaller end u >= 0) from
\* the table A, a feeder (u < 0) with the link u - v in G from d2roots, any
\* other feeder by the detour walk; a feeder is an edge that leads to a
\* substation.
C30_LengthCases ==
    (lastOp = "compute" /\ Solved(shape)) =>
        /\ Len(locals.rows) = Len(res.S)
        /\ \A k \in 1..Len(locals.rows) :
             LET i == Wrap(locals.rows[k], shape.T)
             IN  /\ (EdgeU(k) < 0) <=> (shape.par[i] < 0)
                 /\ LengthCase(k) = "link" =>
                      locals.length_cables[i] = res.A[EdgeU(k)][EdgeV(k)]
                 /\ LengthCase(k) = "direct" =>
                      locals.length_cables[i] = res.d2roots[EdgeV(k)][EdgeU(k)]
                 /\ LengthCase(k) = "detour" <=> DetouredFeeder(shape, i)


====
